---- MODULE Spec2Model ----
(***************************************************************************)
(* Streaming part accumulator and incremental terminal renderer of         *)
(* opencode-miniterm (src/src/index.ts, src/src/render.ts).                *)
(*                                                                         *)
(* A JavaScript string is modelled as a sequence of one-element strings,   *)
(* one per UTF-16 code unit (the unit that text[i] and .length count).     *)
(* Positions in the model are 1-based; the code's are 0-based.             *)
(***************************************************************************)
EXTENDS Integers, Sequences, FiniteSets, TLC

\* ------------------------------------------------------------------------
\* Loops
\* ------------------------------------------------------------------------

\* F applied to the value of v, with v evaluated once
Strict(v, F(_)) == CHOOSE r \in {F(x) : x \in {v}} : TRUE

\* The state after running a loop body for k = lo, lo + 1, ..., hi in this
\* order, as long as Cond holds of the state before the run. The range is
\* halved so that the evaluation depth is logarithmic in its length.
RECURSIVE While(_, _, _, _, _)
While(Cond(_), Body(_, _), st, lo, hi) ==
    IF lo > hi THEN st
    ELSE IF ~Cond(st) THEN st
    ELSE IF lo = hi THEN Body(st, lo)
    ELSE CHOOSE r \in {While(Cond, Body, l, ((lo + hi) \div 2) + 1, hi) :
                       l \in {While(Cond, Body, st, lo, (lo + hi) \div 2)}} : TRUE

\* The state after running a loop body for k = lo, lo + 1, ..., hi in order
ForEach(Body(_, _), st, lo, hi) == While(LAMBDA s : TRUE, Body, st, lo, hi)

\* ------------------------------------------------------------------------
\* Characters and the escape sequences of ansi.ts
\* ------------------------------------------------------------------------

ESC == "ESC"
NL == "\n"
CR == "\r"
TAB == "\t"
SP == " "

\* ansi.BRIGHT_BLACK  "\x1b[90m"
BRIGHT_BLACK == <<ESC, "[", "9", "0", "m">>

\* ansi.RESET  "\x1b[0m"
RESET == <<ESC, "[", "0", "m">>

\* The characters of the class [0-9;] of ANSI_CODE_PATTERN
AnsiParamChars == {"0", "1", "2", "3", "4", "5", "6", "7", "8", "9", ";"}

\* First index j >= i of s whose character is not in [0-9;] (Len(s)+1 if none)
RECURSIVE ParamsEnd(_, _)
ParamsEnd(s, i) ==
    IF i <= Len(s) /\ s[i] \in AnsiParamChars THEN ParamsEnd(s, i + 1) ELSE i

\* Length of the match of ANSI_CODE_PATTERN = /^\x1b\[[0-9;]*m/ on the rest of
\* s from position i; 0 when there is no match.
AnsiMatchLen(s, i) ==
    IF i + 1 <= Len(s) /\ s[i] = ESC /\ s[i + 1] = "["
    THEN Strict(ParamsEnd(s, i + 2),
                LAMBDA j : IF j <= Len(s) /\ s[j] = "m" THEN j - i + 1 ELSE 0)
    ELSE 0

\* One step of the global replace of stripAnsiCodes at position k: a match
\* that starts at the scan position st.i is skipped, another character is kept
StripBody(st, s, k) ==
    IF st.i # k THEN st
    ELSE Strict(AnsiMatchLen(s, k),
                LAMBDA n : IF n > 0 THEN [st EXCEPT !.i = k + n]
                           ELSE [out |-> Append(st.out, s[k]), i |-> k + 1])

\* stripAnsiCodes: str.replace(/\x1b\[[0-9;]*m/g, "")
stripAnsiCodes(s) ==
    ForEach(LAMBDA st, k : StripBody(st, s, k), [out |-> <<>>, i |-> 1], 1, Len(s)).out

\* The white space String.prototype.trim removes (of the characters modelled)
WhiteSpace == {SP, TAB, NL, CR}

\* Position of the first character of s that is not white space (Len(s)+1 if none)
FirstNonSpace(s) ==
    While(LAMBDA i : s[i] \in WhiteSpace, LAMBDA i, k : k + 1, 1, 1, Len(s))

\* Position of the last character of s that is not white space (0 if none)
LastNonSpace(s) ==
    Len(s) - While(LAMBDA d : s[Len(s) - d] \in WhiteSpace, LAMBDA d, k : k, 0, 1, Len(s))

trimStart(s) == SubSeq(s, FirstNonSpace(s), Len(s))

trim(s) == SubSeq(s, FirstNonSpace(s), LastNonSpace(s))

\* text.slice(start) with a 0-based start
SliceFrom(s, start) == SubSeq(s, start + 1, Len(s))

\* ------------------------------------------------------------------------
\* wrapText (render.ts)
\* ------------------------------------------------------------------------

\* The local variables of wrapText
WrapInit == [lines |-> <<>>, currentLine |-> <<>>, visibleLength |-> 0, i |-> 1]

pushLine(st) ==
    [st EXCEPT !.lines = Append(@, st.currentLine), !.currentLine = <<>>,
               !.visibleLength = 0]

\* One run of the inner while loop of the hard split, at position k of word;
\* s.w is the loop's position
SegmentBody(s, word, k) ==
    IF s.w # k THEN s
    ELSE IF word[k] = ESC /\ k + 1 <= Len(word) /\ word[k + 1] = "["
    THEN Strict(AnsiMatchLen(word, k),
                LAMBDA n : IF n > 0
                           THEN [s EXCEPT !.segment = @ \o SubSeq(word, k, k + n - 1),
                                          !.w = k + n]
                           ELSE [s EXCEPT !.segment = Append(@, word[k]), !.w = k + 1])
    ELSE [segment |-> Append(s.segment, word[k]),
          segmentVisible |-> s.segmentVisible + 1, w |-> k + 1]

\* The inner while loop of the hard split, started at position w:
\* while (w < word.length && segmentVisible < wordWidth)
SplitSegment(word, w, wordWidth) ==
    While(LAMBDA s : s.segmentVisible < wordWidth,
          LAMBDA s, k : SegmentBody(s, word, k),
          [segment |-> <<>>, segmentVisible |-> 0, w |-> w], w, Len(word))

\* One run of the for loop of the hard split, at position k of word; hs.w is
\* the loop's position and hs.st the variables of wrapText
HardSplitBody(hs, word, k, width) ==
    IF hs.w # k THEN hs
    ELSE Strict(SplitSegment(word, k, width),
                LAMBDA r :
                    [w |-> r.w,
                     st |-> IF r.segment # <<>>
                            THEN [(IF hs.st.currentLine # <<>> THEN pushLine(hs.st)
                                   ELSE hs.st)
                                  EXCEPT !.currentLine = r.segment,
                                         !.visibleLength = r.segmentVisible]
                            ELSE hs.st])

\* The for loop of the hard split: for (let w = 0; w < word.length; )
HardSplit(st, word, width) ==
    ForEach(LAMBDA hs, k : HardSplitBody(hs, word, k, width),
            [w |-> 1, st |-> st], 1, Len(word)).st

addWord(st, word, wordVisibleLength, width) ==
    IF word = <<>> \/ wordVisibleLength = 0 THEN st
    ELSE IF (IF st.visibleLength = 0 THEN wordVisibleLength <= width
             ELSE st.visibleLength + 1 + wordVisibleLength <= width)
    THEN [st EXCEPT !.currentLine = (IF st.visibleLength > 0
                                     THEN Append(@, SP) ELSE @) \o word,
                    !.visibleLength = (IF st.visibleLength > 0
                                       THEN @ + 1 ELSE @) + wordVisibleLength]
    ELSE IF st.visibleLength > 0
    THEN [pushLine(st) EXCEPT !.currentLine = word,
                              !.visibleLength = wordVisibleLength]
    ELSE IF wordVisibleLength <= width
    THEN [st EXCEPT !.currentLine = word, !.visibleLength = wordVisibleLength]
    ELSE HardSplit(st, word, width)

\* One run of the inner while loop of wrapText that collects a word, at
\* position k of text; s.i is the loop's position, s.done its break
ScanBody(s, text, k) ==
    IF s.i # k THEN s
    ELSE IF text[k] \in {NL, CR, SP, TAB} THEN [s EXCEPT !.done = TRUE]
    ELSE IF text[k] = ESC /\ k + 1 <= Len(text) /\ text[k + 1] = "["
    THEN Strict(AnsiMatchLen(text, k),
                LAMBDA n : IF n > 0
                           THEN [s EXCEPT !.word = @ \o SubSeq(text, k, k + n - 1),
                                          !.i = k + n]
                           ELSE [s EXCEPT !.word = Append(@, text[k]), !.i = k + 1])
    ELSE [s EXCEPT !.word = Append(@, text[k]),
                   !.wordVisibleLength = @ + 1, !.i = k + 1]

\* The inner while loop of wrapText, started at position i: the word, its
\* visible length and the position after it
ScanWord(text, i) ==
    While(LAMBDA s : ~s.done,
          LAMBDA s, k : ScanBody(s, text, k),
          [word |-> <<>>, wordVisibleLength |-> 0, i |-> i, done |-> FALSE],
          i, Len(text))

\* One run of the outer while loop of wrapText, at position k of text; st.i is
\* the loop's position
WrapBody(st, text, k, width) ==
    IF st.i # k THEN st
    ELSE IF text[k] = NL THEN [pushLine(st) EXCEPT !.i = k + 1]
    ELSE IF text[k] \in {CR, SP, TAB} THEN [st EXCEPT !.i = k + 1]
    ELSE Strict(ScanWord(text, k),
                LAMBDA r : [addWord(st, r.word, r.wordVisibleLength, width)
                            EXCEPT !.i = r.i])

\* wrapText pushing the current line at the end whatever it holds
wrapTextAlwaysPush(text, width) ==
    pushLine(ForEach(LAMBDA st, k : WrapBody(st, text, k, width), WrapInit, 1, Len(text))).lines

\* wrapText pushing the current line at the end only when it holds something
wrapTextNoEmptyPush(text, width) ==
    Strict(ForEach(LAMBDA st, k : WrapBody(st, text, k, width), WrapInit, 1, Len(text)),
           LAMBDA st : IF st.currentLine # <<>> THEN pushLine(st).lines ELSE st.lines)

\* wrapText(text, width)
wrapText(text, width) ==
    Strict(ForEach(LAMBDA st, k : WrapBody(st, text, k, width), WrapInit, 1, Len(text)),
           LAMBDA st : IF st.currentLine # <<>> \/ Len(st.lines) = 0
                       THEN pushLine(st).lines ELSE st.lines)

\* ------------------------------------------------------------------------
\* countRenderedLines and lastThinkingLines (render.ts)
\* ------------------------------------------------------------------------

\* The width both functions fall back to: process.stdout.columns || 80
DefaultWidth == 80

\* process.stdout.columns || 80; columns = 0 models an undefined width
ConsoleWidth(columns) == IF columns # 0 THEN columns ELSE DefaultWidth

\* One run of the for loop of countRenderedLines, on character c
CountBody(st, c, consoleWidth) ==
    IF c = NL THEN [lineCount |-> st.lineCount + 1, col |-> 0]
    ELSE IF c = CR THEN st
    ELSE IF st.col + 1 >= consoleWidth THEN [lineCount |-> st.lineCount + 1, col |-> 0]
    ELSE [lineCount |-> st.lineCount, col |-> st.col + 1]

\* The value countRenderedLines stores in state.renderedLinesCount
countRenderedLines(output, columns) ==
    Strict(stripAnsiCodes(output),
           LAMBDA s :
               Strict(ForEach(LAMBDA st, k : CountBody(st, s[k], ConsoleWidth(columns)),
                              [lineCount |-> 0, col |-> 0], 1, Len(s)),
                      LAMBDA st : IF st.col > 0 THEN st.lineCount + 1 ELSE st.lineCount))

\* How many line breaks lastThinkingLines keeps: lineBreaks.length - 10
ThinkingTail == 10

\* One run of the for loop of lastThinkingLines, on the character at position
\* k; lineBreaks holds the code's 0-based offsets
LineBreakBody(st, c, k, consoleWidth) ==
    IF c = NL THEN [lineBreaks |-> Append(st.lineBreaks, k), col |-> 0]
    ELSE IF c = CR THEN st
    ELSE IF st.col + 1 >= consoleWidth
    THEN [lineBreaks |-> Append(st.lineBreaks, k - 1), col |-> 0]
    ELSE [st EXCEPT !.col = @ + 1]

lastThinkingLines(text, columns) ==
    Strict(stripAnsiCodes(text),
           LAMBDA s :
               Strict(ForEach(LAMBDA st, k : LineBreakBody(st, s[k], k, ConsoleWidth(columns)),
                              [lineBreaks |-> <<0>>, col |-> 0], 1, Len(s)).lineBreaks,
                      LAMBDA lineBreaks :
                          SliceFrom(text, lineBreaks[
                              (IF Len(lineBreaks) > ThinkingTail
                               THEN Len(lineBreaks) - ThinkingTail ELSE 0) + 1])))

\* ------------------------------------------------------------------------
\* render (render.ts)
\* ------------------------------------------------------------------------

\* activeStep with a thinking part that does not set foundPart
activeStepThinkingUnmarked(title, foundPart, foundFiles) ==
    IF title = "thinking" \/ title = "tool"
    THEN [active |-> ~foundPart, foundPart |-> foundPart, foundFiles |-> foundFiles]
    ELSE IF title = "files"
    THEN [active |-> ~foundFiles, foundPart |-> foundPart, foundFiles |-> TRUE]
    ELSE [active |-> TRUE, foundPart |-> TRUE, foundFiles |-> foundFiles]

\* activeStep with every files part active
activeStepFilesAlways(title, foundPart, foundFiles) ==
    IF title = "thinking"
    THEN [active |-> ~foundPart, foundPart |-> TRUE, foundFiles |-> foundFiles]
    ELSE IF title = "tool"
    THEN [active |-> ~foundPart, foundPart |-> foundPart, foundFiles |-> foundFiles]
    ELSE IF title = "files"
    THEN [active |-> TRUE, foundPart |-> foundPart, foundFiles |-> TRUE]
    ELSE [active |-> TRUE, foundPart |-> TRUE, foundFiles |-> foundFiles]

\* activeStep with a tool part that sets foundPart
activeStepToolMarked(title, foundPart, foundFiles) ==
    IF title = "thinking" \/ title = "tool"
    THEN [active |-> ~foundPart, foundPart |-> TRUE, foundFiles |-> foundFiles]
    ELSE IF title = "files"
    THEN [active |-> ~foundFiles, foundPart |-> foundPart, foundFiles |-> TRUE]
    ELSE [active |-> TRUE, foundPart |-> TRUE, foundFiles |-> foundFiles]

\* activeStep with a response part that does not set foundPart
activeStepResponseUnmarked(title, foundPart, foundFiles) ==
    IF title = "thinking"
    THEN [active |-> ~foundPart, foundPart |-> TRUE, foundFiles |-> foundFiles]
    ELSE IF title = "tool"
    THEN [active |-> ~foundPart, foundPart |-> foundPart, foundFiles |-> foundFiles]
    ELSE IF title = "files"
    THEN [active |-> ~foundFiles, foundPart |-> foundPart, foundFiles |-> TRUE]
    ELSE [active |-> TRUE, foundPart |-> foundPart, foundFiles |-> foundFiles]

\* One iteration of the visibility loop of render (non-detailed): the active
\* flag given to a part of this title, and the two found flags afterwards.
activeStep(title, foundPart, foundFiles) ==
    IF title = "thinking"
    THEN [active |-> ~foundPart, foundPart |-> TRUE, foundFiles |-> foundFiles]
    ELSE IF title = "tool"
    THEN [active |-> ~foundPart, foundPart |-> foundPart, foundFiles |-> foundFiles]
    ELSE IF title = "files"
    THEN [active |-> ~foundFiles, foundPart |-> foundPart, foundFiles |-> TRUE]
    ELSE [active |-> TRUE, foundPart |-> TRUE, foundFiles |-> foundFiles]

\* The visibility loop applying the policy in the detailed view too
RECURSIVE SetActivePolicy(_, _, _, _, _)
SetActivePolicy(parts, i, details, foundPart, foundFiles) ==
    IF i < 1 THEN parts
    ELSE LET r == activeStep(parts[i].title, foundPart, foundFiles)
         IN SetActivePolicy([parts EXCEPT ![i].active = r.active], i - 1, details,
                            r.foundPart, r.foundFiles)

\* The visibility loop of render, from index i down to 1
RECURSIVE SetActive(_, _, _, _, _)
SetActive(parts, i, details, foundPart, foundFiles) ==
    IF i < 1 THEN parts
    ELSE IF details
    THEN SetActive([parts EXCEPT ![i].active = TRUE], i - 1, details, foundPart, foundFiles)
    ELSE LET r == activeStep(parts[i].title, foundPart, foundFiles)
         IN SetActive([parts EXCEPT ![i].active = r.active], i - 1, details,
                      r.foundPart, r.foundFiles)

\* toolText.indexOf(":"), 0-based, -1 when there is none
RECURSIVE IndexOfColon(_, _)
IndexOfColon(s, i) ==
    IF i > Len(s) THEN -1 ELSE IF s[i] = ":" THEN i - 1 ELSE IndexOfColon(s, i + 1)

\* "💭 " (U+1F4AD is two code units)
ThinkingLabel == <<"U+D83D", "U+DCAD", SP>>

\* "Thinking...\n\n"
ThinkingWord == <<"T", "h", "i", "n", "k", "i", "n", "g", ".", ".", ".", NL, NL>>

\* "💬 Response:\n\n" (U+1F4AC is two code units)
ResponseLabel ==
    <<"U+D83D", "U+DCAC", SP, "R", "e", "s", "p", "o", "n", "s", "e", ":", NL, NL>>

\* "📋 Detailed output from the last run:\n\n" (U+1F4CB is two code units)
DetailsHeader ==
    <<"U+D83D", "U+DCCB", SP, "D", "e", "t", "a", "i", "l", "e", "d", SP,
      "o", "u", "t", "p", "u", "t", SP, "f", "r", "o", "m", SP, "t", "h", "e", SP,
      "l", "a", "s", "t", SP, "r", "u", "n", ":", NL, NL>>

\* What the second loop of render appends to output for one painted part
PartOutput(part, details, columns) ==
    IF part.title = "thinking"
    THEN ThinkingLabel \o BRIGHT_BLACK \o ThinkingWord
         \o (IF details THEN trimStart(part.text)
             ELSE lastThinkingLines(trimStart(part.text), columns))
         \o RESET \o <<NL, NL>>
    ELSE IF part.title = "response"
    THEN ResponseLabel \o trimStart(part.text) \o <<NL, NL>>
    ELSE IF part.title = "tool"
    THEN LET colonIndex == IndexOfColon(part.text, 1)
         IN IF colonIndex # -1
            THEN SubSeq(part.text, 1, colonIndex + 1) \o <<SP>> \o BRIGHT_BLACK
                 \o SliceFrom(part.text, colonIndex + 1) \o RESET \o <<NL, NL>>
            ELSE part.text \o <<NL, NL>>
    ELSE IF part.title = "files"
    THEN part.text \o <<NL, NL>>
    ELSE <<>>

\* The paint guard without the test for blank text
PaintedWhenActive(part) == part.active

\* The part is not skipped by the second loop of render
Painted(part) == part.active /\ trim(part.text) # <<>>

\* The second loop of render: the output of parts i.. and the indices painted
RECURSIVE BuildOutput(_, _, _, _)
BuildOutput(parts, i, details, columns) ==
    IF i > Len(parts) THEN [output |-> <<>>, painted |-> <<>>]
    ELSE LET rest == BuildOutput(parts, i + 1, details, columns)
         IN IF Painted(parts[i])
            THEN [output |-> PartOutput(parts[i], details, columns) \o rest.output,
                  painted |-> <<i>> \o rest.painted]
            ELSE rest

\* The decimal digits of n, as `${n}` writes them
RECURSIVE ToDigits(_)
ToDigits(n) ==
    LET d == <<"0", "1", "2", "3", "4", "5", "6", "7", "8", "9">>[(n % 10) + 1]
    IN IF n < 10 THEN <<d>> ELSE Append(ToDigits(n \div 10), d)

\* ansi.CURSOR_UP(lines)
CURSOR_UP(lines) == <<ESC, "[">> \o ToDigits(lines) \o <<"A">>

\* ansi.CURSOR_HOME
CURSOR_HOME == <<ESC, "[", "0", "G">>

\* "\x1b[J", erase from the cursor to the end of the screen
ERASE_DOWN == <<ESC, "[", "J">>

\* clearRenderedLines moving the cursor up no line
clearNothing(count) == 0

\* clearRenderedLines moving the cursor up one line less than were painted
clearOneLess(count) == IF count > 0 THEN count - 1 ELSE 0

\* The cursor-up count clearRenderedLines writes for a painted-line count
\* (0: no clear sequence is written)
clearRenderedLines(count) == IF count > 0 THEN count ELSE 0

\* The state.write calls of clearRenderedLines, in order
ClearWrites(count) ==
    IF count > 0
    THEN <<CURSOR_UP(clearRenderedLines(count)) \o ERASE_DOWN, CURSOR_HOME>>
    ELSE <<>>

\* The state.write calls of the last block of render, in order
ContentWrites(output, lines, columns) ==
    IF output = <<>> THEN <<>>
    ELSE IF columns # 0
    THEN ForEach(LAMBDA acc, k : acc \o <<lines[k], <<NL>>>>, <<>>, 1, Len(lines))
    ELSE <<output>>

\* render(state, details): the parts with their new active flags, the new
\* renderedLinesCount, and what was written through state.write:
\*   cleared  the N of CURSOR_UP(N) + "\x1b[J" (0 when nothing was cleared)
\*   lines    the lines of wrapText, each written followed by "\n"
\*   raw      the output written in one piece when the width is unknown
\*   writes   the argument of every state.write call, in order
render(parts, count, columns, details) ==
    Strict(SetActive(parts, Len(parts), details, FALSE, FALSE), LAMBDA ps :
    Strict(BuildOutput(ps, 1, details, columns), LAMBDA b :
    Strict((IF details THEN DetailsHeader ELSE <<>>) \o b.output, LAMBDA output :
    Strict(IF output # <<>> /\ columns # 0 THEN wrapText(output, columns) ELSE <<>>,
           LAMBDA lines :
        [parts |-> ps,
         cleared |-> clearRenderedLines(count),
         painted |-> b.painted,
         lines |-> lines,
         raw |-> IF columns # 0 THEN <<>> ELSE output,
         writes |-> ClearWrites(count) \o ContentWrites(output, lines, columns),
         renderedLinesCount |->
             IF output = <<>> THEN 0
             ELSE IF columns # 0 THEN Len(lines)
             ELSE countRenderedLines(output, columns)]))))

\* ------------------------------------------------------------------------
\* Bounds and the inputs the events are drawn from
\* ------------------------------------------------------------------------

\* Most events and commands handled in one run of the model
MaxEvents == 3

\* Part keys `${part.messageID}-${part.id}` of the text parts of the stream
Keys == {"m1-p1", "m1-p2"}

\* A token longer than the known terminal width
LongToken == [i \in 1..17 |-> "x"]

\* The text fragments the delta of a text part carries
Deltas == {<<"a", SP>>, <<SP>>, LongToken}

\* Eleven lines "a\n": more line breaks than lastThinkingLines keeps
ManyLines == [i \in 1..22 |-> IF i % 2 = 1 THEN "a" ELSE NL]

\* The text fragments the delta of a reasoning part carries
ReasoningDeltas == {<<"a", SP>>, ManyLines}

\* The complete texts a text part update carries without a delta
FullTexts == {<<"o", "k">>}

\* process.stdout.columns: 0 when stdout has no width, else the terminal width
Widths == {0, 16}

\* The tool_use parts of the stream: part key and part.name (<<>>: no name)
ToolParts == {[key |-> "m1-p3", name |-> <<"s", "h">>], [key |-> "m1-p4", name |-> <<>>]}

\* ------------------------------------------------------------------------
\* State
\* ------------------------------------------------------------------------

VARIABLES
    accumulatedResponse, \* state.accumulatedResponse: [title, text, active], and key:
                         \* the part key of the text or tool_use event that pushed
                         \* the part ("" for the others), which the code does not store
    renderedLinesCount,  \* state.renderedLinesCount
    seenParts,           \* the Set seenParts: <<partKey, "">> and <<partKey, "_final">>
    processing,          \* the module flag processing
    columns,             \* process.stdout.columns (0: undefined)
    out,                 \* what the last render call wrote through state.write
    ev,                  \* the event or command handled last
    nEvents,             \* events and commands handled so far
    wText,               \* the text given to wrapText
    wWidth,              \* the width given to wrapText
    wLines,              \* the lines wrapText returned for wText and wWidth
    wLen,                \* the pieces wText was put together from
    screen,              \* the rows of the terminal down to the row of the cursor,
                         \* each with what wrote it
    inputBuffer,         \* the text typed at the prompt
    inFlight,            \* the sendMessage calls acceptInput is awaiting
    erased,              \* the rows the clear step of the last render erased
    tEv,                 \* the last thing that wrote to the terminal
    tSteps,              \* the steps taken on the terminal so far
    listener,            \* where startEventListener is
    warned,              \* console.warn has written "Failed to connect ..."
    buffer,              \* the local buffer of startEventListener
    pendingLines,        \* the lines of the for loop not yet looked at
    call,                \* the processEvent call the for loop has made, and the
                         \* value of nEvents when it made it
    received,            \* all the text reader.read() has returned
    delivered,           \* the data of every processEvent call, in order
    nReads,              \* the chunks read so far
    cursorPosition,      \* cursorPosition: where in inputBuffer the next key goes
    completions,         \* the commands Tab cycles through
    selectedCompletion,  \* the index in completions of the one shown, from 0
    completionCycling,   \* Tab was the last key and has put a command in inputBuffer
    tabPrefix,           \* inputBuffer as it was when the cycling began
    pEv,                 \* the key handled last at the prompt, and how many times
                         \* in a row it is Tab
    pSteps,              \* the keys handled at the prompt so far
    currentPageIndex,    \* /page: currentPageIndex
    pages,               \* /page: pages
    pageRunning,         \* /page: command.running
    pageEv,              \* /page: the key handled last, and the Space presses
                         \* since run
    pageSteps,           \* /page: the calls of run and handleKey so far
    sessionList,         \* /sessions: sessionList, each session its id and title
    selectedSessionIndex, \* /sessions: selectedSessionIndex
    sessionListOffset,   \* /sessions: sessionListOffset
    sessionSearchString, \* /sessions: sessionSearchString
    sessionFilteredIndices, \* /sessions: sessionFilteredIndices (indices from 0)
    sessionsRunning,     \* /sessions: command.running
    activeSession,       \* config.sessionIDs[process.cwd()]
    sessEv,              \* /sessions: the key handled last, and whether only up
                         \* and down were pressed since run
    sessSteps,           \* /sessions: the calls of run and handleKey so far
    diffBefore,          \* computeDiff: the text before
    diffAfter,           \* computeDiff: the text after
    diffResult,          \* computeDiff: what it returned for them
    lastEventTime,       \* lastEventTime, as the number of later Date.now() readings
    fetchState,          \* fetchWithTimeout: "idle", "pending" (awaiting fetch),
                         \* "returned", "timedOut" or "failed" (what it threw)
    fetchCalls,          \* fetchWithTimeout: the calls so far
    resetOnActivity,     \* fetchWithTimeout: resetOnActivity of the last call
    startTime,           \* fetchWithTimeout: startTime of the last call
    timers,              \* the armed setTimeout timers: id, periods left, call
    timeout,             \* fetchWithTimeout: the handle in timeout (0: none)
    interval,            \* periods left until the setInterval callback is due
                         \* (-1: not armed)
    aborted,             \* controller.signal.aborted of the last call
    rearmed              \* whether resetTimeout has run in the last call

streamVars == <<accumulatedResponse, renderedLinesCount, seenParts, processing,
                columns, out, ev, nEvents>>

wrapVars == <<wText, wWidth, wLines, wLen>>

termVars == <<screen, inputBuffer, inFlight, erased, tEv, tSteps>>

listenVars == <<listener, warned, buffer, pendingLines, call, received, delivered, nReads>>

promptVars == <<cursorPosition, completions, selectedCompletion, completionCycling,
                tabPrefix, pEv, pSteps>>

pageVars == <<currentPageIndex, pages, pageRunning, pageEv, pageSteps>>

\* The state of the commands and helpers that have a specification of their own
sessionVars == <<sessionList, selectedSessionIndex, sessionListOffset, sessionSearchString,
                 sessionFilteredIndices, sessionsRunning, activeSession, sessEv, sessSteps>>

diffVars == <<diffBefore, diffAfter, diffResult>>

fetchVars == <<lastEventTime, fetchState, fetchCalls, resetOnActivity, startTime, timers,
               timeout, interval, aborted, rearmed>>

lateVars == <<pageVars, sessionVars, diffVars, fetchVars>>

vars == <<streamVars, wrapVars, termVars, listenVars, promptVars, lateVars>>

\* wrapText has not been called
WrapIdle == wText = <<>> /\ wWidth = 0 /\ wLines = <<>> /\ wLen = 0

\* No processEvent call is being made
NoCall == [event |-> "none", at |-> -1]

\* startEventListener has not been called
ListenIdle ==
    /\ listener = "off"
    /\ warned = FALSE
    /\ buffer = <<>>
    /\ pendingLines = <<>>
    /\ call = NoCall
    /\ received = <<>>
    /\ delivered = <<>>
    /\ nReads = 0

\* /page has not been run
PageIdle ==
    /\ currentPageIndex = 0
    /\ pages = <<>>
    /\ pageRunning = FALSE
    /\ pageEv = [key |-> "none", spaces |-> 0]
    /\ pageSteps = 0

\* /sessions has not been run (sessionListLineCount, the rows the list takes
\* on the terminal, is left out)
SessionsIdle ==
    /\ sessionList = <<>>
    /\ selectedSessionIndex = 0
    /\ sessionListOffset = 0
    /\ sessionSearchString = <<>>
    /\ sessionFilteredIndices = <<>>
    /\ sessionsRunning = FALSE
    /\ sessEv = [key |-> "none", arrowsOnly |-> FALSE]
    /\ sessSteps = 0

\* computeDiff has not been called
DiffIdle == diffBefore = <<>> /\ diffAfter = <<>> /\ diffResult = <<>>

\* fetchWithTimeout has not been called
FetchIdle ==
    /\ lastEventTime = 0
    /\ fetchState = "idle"
    /\ fetchCalls = 0
    /\ resetOnActivity = FALSE
    /\ startTime = 0
    /\ timers = {}
    /\ timeout = 0
    /\ interval = -1
    /\ aborted = FALSE
    /\ rearmed = FALSE

LateIdle == PageIdle /\ SessionsIdle /\ activeSession = <<>> /\ DiffIdle /\ FetchIdle

\* No key has been pressed at the prompt
PromptIdle ==
    /\ cursorPosition = 0
    /\ completions = <<>>
    /\ selectedCompletion = 0
    /\ completionCycling = FALSE
    /\ tabPrefix = <<>>
    /\ pEv = [key |-> "none", run |-> 0]
    /\ pSteps = 0

\* An end of acceptInput that leaves cursorPosition where it is
PromptResetBufferOnly ==
    /\ inputBuffer' = <<>>
    /\ completionCycling' = FALSE
    /\ completions' = <<>>
    /\ UNCHANGED cursorPosition

\* The end of acceptInput: the prompt is emptied (showCompletions, which
\* nothing reads, is left out)
PromptReset ==
    /\ inputBuffer' = <<>>
    /\ cursorPosition' = 0
    /\ completionCycling' = FALSE
    /\ completions' = <<>>

\* Nothing has been written to the terminal
TermIdle ==
    /\ screen = <<>>
    /\ inputBuffer = <<>>
    /\ inFlight = 0
    /\ erased = <<>>
    /\ tEv = "none"
    /\ tSteps = 0

NoOut == [kind |-> "none", cleared |-> 0, painted |-> <<>>, lines |-> <<>>, raw |-> <<>>,
          writes |-> <<>>]

NoEv == [type |-> "none", key |-> "", delta |-> <<>>, text |-> <<>>,
         applied |-> FALSE, fresh |-> FALSE, rendered |-> FALSE, mutated |-> FALSE]

Init ==
    /\ accumulatedResponse = <<>>
    /\ renderedLinesCount = 0
    /\ seenParts = {}
    /\ processing = TRUE
    /\ columns \in Widths
    /\ out = NoOut
    /\ ev = NoEv
    /\ nEvents = 0
    /\ WrapIdle
    /\ TermIdle
    /\ ListenIdle
    /\ LateIdle
    /\ PromptIdle

\* A part as pushed: active is not set until render runs
NewPart(title, text, key) == [title |-> title, text |-> text, active |-> FALSE, key |-> key]

\* The call render(state, details) on the part list parts (r: its one result)
DoRender(parts, details) ==
    \E r \in {render(parts, renderedLinesCount, columns, details)} :
        /\ accumulatedResponse' = r.parts
        /\ renderedLinesCount' = r.renderedLinesCount
        /\ out' = [kind |-> IF details THEN "details" ELSE "plain",
                   cleared |-> r.cleared, painted |-> r.painted,
                   lines |-> r.lines, raw |-> r.raw, writes |-> r.writes]

\* Index of the last part with this title, 0 if none (the while (i--) loop)
RECURSIVE LastIndexOf(_, _, _)
LastIndexOf(parts, title, i) ==
    IF i < 1 THEN 0
    ELSE IF parts[i].title = title THEN i ELSE LastIndexOf(parts, title, i - 1)

\* Index of the first part with this title, 0 if none (Array.prototype.find)
RECURSIVE FirstIndexOf(_, _, _)
FirstIndexOf(parts, title, i) ==
    IF i > Len(parts) THEN 0
    ELSE IF parts[i].title = title THEN i ELSE FirstIndexOf(parts, title, i + 1)

\* ------------------------------------------------------------------------
\* Event handlers (index.ts)
\* ------------------------------------------------------------------------

\* processPart, case "step-start"
processStepStart ==
    /\ nEvents < MaxEvents
    /\ DoRender(Append(accumulatedResponse, NewPart("thinking", <<>>, "")), FALSE)
    /\ processing' = TRUE
    /\ ev' = [NoEv EXCEPT !.type = "step-start", !.applied = TRUE,
                          !.rendered = TRUE, !.mutated = TRUE]
    /\ nEvents' = nEvents + 1
    /\ UNCHANGED <<wrapVars, termVars, listenVars, lateVars, promptVars>>
    /\ UNCHANGED <<seenParts, columns>>

\* The part list after the body of processReasoning
reasoningParts(parts, delta) ==
    LET i == LastIndexOf(parts, "thinking", Len(parts))
    IN IF i # 0 THEN [parts EXCEPT ![i].text = @ \o delta] ELSE parts

\* processPart, case "reasoning" (partKey is not read)
processReasoning(delta) ==
    /\ nEvents < MaxEvents
    /\ IF delta # <<>>
       THEN DoRender(reasoningParts(accumulatedResponse, delta), FALSE)
       ELSE UNCHANGED <<accumulatedResponse, renderedLinesCount, out>>
    /\ ev' = [NoEv EXCEPT !.type = "reasoning", !.delta = delta,
                          !.applied = TRUE, !.rendered = (delta # <<>>),
                          !.mutated = (reasoningParts(accumulatedResponse, delta)
                                       # accumulatedResponse)]
    /\ nEvents' = nEvents + 1
    /\ UNCHANGED <<wrapVars, termVars, listenVars, lateVars, promptVars>>
    /\ UNCHANGED <<seenParts, processing, columns>>

\* A processText that starts the part list over with the part of this event
textPartsReplace(parts, seen, key, delta, text) ==
    <<NewPart("response", delta \o text, key)>>

\* A processText that appends part.text whenever the update has no delta
textPartsAlwaysAppend(parts, seen, key, delta, text) ==
    LET pushed == IF delta # <<>> /\ <<key, "">> \notin seen
                  THEN Append(parts, NewPart("response", <<>>, key)) ELSE parts
        i == FirstIndexOf(pushed, "response", 1)
    IN IF delta # <<>>
       THEN (IF i # 0 THEN [pushed EXCEPT ![i].text = @ \o delta] ELSE pushed)
       ELSE IF text # <<>>
       THEN (IF i # 0 THEN [pushed EXCEPT ![i].text = @ \o text \o <<NL>>] ELSE pushed)
       ELSE pushed

\* The part list after the body of processText
textParts(parts, seen, key, delta, text) ==
    LET pushed == IF delta # <<>> /\ <<key, "">> \notin seen
                  THEN Append(parts, NewPart("response", <<>>, key)) ELSE parts
        i == FirstIndexOf(pushed, "response", 1)
    IN IF delta # <<>>
       THEN (IF i # 0 THEN [pushed EXCEPT ![i].text = @ \o delta] ELSE pushed)
       ELSE IF text # <<>> /\ <<key, "_final">> \notin seen
       THEN (IF i # 0 THEN [pushed EXCEPT ![i].text = @ \o text \o <<NL>>] ELSE pushed)
       ELSE pushed

\* The Set seenParts after the body of processText
textSeen(seen, key, delta, text) ==
    IF delta # <<>>
    THEN seen \cup {<<key, "">>, <<key, "_final">>}
    ELSE IF text # <<>> THEN seen \cup {<<key, "_final">>} ELSE seen

\* A processText that processPart calls whatever the processing flag is
processTextUngated(key, delta, text) ==
    /\ nEvents < MaxEvents
    /\ DoRender(textParts(accumulatedResponse, seenParts, key, delta, text), FALSE)
    /\ seenParts' = textSeen(seenParts, key, delta, text)
    /\ ev' = [NoEv EXCEPT !.type = "text", !.key = key, !.delta = delta, !.text = text,
                          !.applied = TRUE,
                          !.fresh = (<<key, "">> \notin seenParts),
                          !.rendered = TRUE,
                          !.mutated = textParts(accumulatedResponse, seenParts, key, delta, text)
                                          # accumulatedResponse]
    /\ nEvents' = nEvents + 1
    /\ UNCHANGED <<wrapVars, termVars, listenVars, lateVars, promptVars>>
    /\ UNCHANGED <<processing, columns>>

\* processPart, case "text". part.text is read only when there is no delta.
processText(key, delta, text) ==
    /\ nEvents < MaxEvents
    /\ IF processing
       THEN /\ DoRender(textParts(accumulatedResponse, seenParts, key, delta, text), FALSE)
            /\ seenParts' = textSeen(seenParts, key, delta, text)
       ELSE UNCHANGED <<accumulatedResponse, renderedLinesCount, out, seenParts>>
    /\ ev' = [NoEv EXCEPT !.type = "text", !.key = key, !.delta = delta, !.text = text,
                          !.applied = processing,
                          !.fresh = (<<key, "">> \notin seenParts),
                          !.rendered = processing,
                          !.mutated = processing /\
                              textParts(accumulatedResponse, seenParts, key, delta, text)
                                  # accumulatedResponse]
    /\ nEvents' = nEvents + 1
    /\ UNCHANGED <<wrapVars, termVars, listenVars, lateVars, promptVars>>
    /\ UNCHANGED <<processing, columns>>

\* "🔧 Using tool: " (U+1F527 is two code units)
ToolLabel ==
    <<"U+D83D", "U+DD27", SP, "U", "s", "i", "n", "g", SP, "t", "o", "o", "l", ":", SP>>

\* part.name || "unknown"
ToolName(name) == IF name # <<>> THEN name ELSE <<"u", "n", "k", "n", "o", "w", "n">>

\* processPart, case "tool_use"
processToolUse(key, name) ==
    /\ nEvents < MaxEvents
    /\ DoRender(Append(accumulatedResponse,
                       NewPart("tool", ToolLabel \o ToolName(name), key)), FALSE)
    /\ ev' = [NoEv EXCEPT !.type = "tool_use", !.key = key, !.applied = TRUE,
                          !.rendered = TRUE, !.mutated = TRUE]
    /\ nEvents' = nEvents + 1
    /\ UNCHANGED <<wrapVars, termVars, listenVars, lateVars, promptVars>>
    /\ UNCHANGED <<seenParts, processing, columns>>

\* [addStr, delStr].filter(Boolean).join(" ")
DiffStats(file) ==
    LET addStr == IF file.additions > 0
                  THEN <<ESC, "[", "3", "2", "m", "+">> \o ToDigits(file.additions) \o RESET
                  ELSE <<>>
        delStr == IF file.deletions > 0
                  THEN <<ESC, "[", "3", "1", "m", "-">> \o ToDigits(file.deletions) \o RESET
                  ELSE <<>>
    IN IF addStr # <<>> /\ delStr # <<>> THEN addStr \o <<SP>> \o delStr
       ELSE addStr \o delStr

\* The line processDiff writes for one file, with its "\n"
DiffLine(file) ==
    LET statusIcon == IF file.status = "added" THEN "A"
                      ELSE IF file.status = "modified" THEN "M" ELSE "D"
        statusLabel == IF file.status = "added" THEN <<"a", "d", "d", "e", "d">>
                       ELSE IF file.status = "modified"
                       THEN <<"m", "o", "d", "i", "f", "i", "e", "d">>
                       ELSE <<"d", "e", "l", "e", "t", "e", "d">>
    IN <<SP, SP, ESC, "[", "3", "4", "m", statusIcon>> \o RESET \o <<SP>> \o file.file
       \o <<SP, "(">> \o statusLabel \o <<")", SP>> \o DiffStats(file) \o <<NL>>

\* diffText after the for loop of processDiff
RECURSIVE DiffText(_)
DiffText(diff) ==
    IF diff = <<>> THEN <<>> ELSE DiffLine(Head(diff)) \o DiffText(Tail(diff))

\* The file lists a session.diff event carries (<<>>: none)
DiffInputs ==
    {<<>>,
     <<[file |-> <<"f">>, status |-> "modified", additions |-> 12, deletions |-> 0]>>}

\* processEvent, case "session.diff"
processDiff(diff) ==
    /\ nEvents < MaxEvents
    /\ IF diff # <<>>
       THEN DoRender(Append(accumulatedResponse,
                          NewPart("files", trim(DiffText(diff)), "")), FALSE)
       ELSE UNCHANGED <<accumulatedResponse, renderedLinesCount, out>>
    /\ ev' = [NoEv EXCEPT !.type = "diff", !.applied = TRUE,
                          !.rendered = (diff # <<>>), !.mutated = (diff # <<>>)]
    /\ nEvents' = nEvents + 1
    /\ UNCHANGED <<wrapVars, termVars, listenVars, lateVars, promptVars>>
    /\ UNCHANGED <<seenParts, processing, columns>>

\* The rows "👉 Sending..." and the empty line take, which acceptInput stores
SendingRows == 2

\* acceptInput with a message to send, up to the first await of sendMessage:
\* the painted-line count is set to the two "Sending..." rows and the turn is reset
acceptInput ==
    /\ nEvents < MaxEvents
    /\ renderedLinesCount' = SendingRows
    /\ processing' = FALSE
    /\ seenParts' = {}
    /\ accumulatedResponse' = <<>>
    /\ out' = NoOut
    /\ ev' = [NoEv EXCEPT !.type = "send", !.applied = TRUE, !.mutated = TRUE]
    /\ nEvents' = nEvents + 1
    /\ UNCHANGED <<wrapVars, termVars, listenVars, lateVars, promptVars>>
    /\ UNCHANGED columns

\* The /details command: render(state, true)
details ==
    /\ nEvents < MaxEvents
    /\ DoRender(accumulatedResponse, TRUE)
    /\ ev' = [NoEv EXCEPT !.type = "details", !.applied = TRUE, !.rendered = TRUE]
    /\ nEvents' = nEvents + 1
    /\ UNCHANGED <<wrapVars, termVars, listenVars, lateVars, promptVars>>
    /\ UNCHANGED <<seenParts, processing, columns>>

Next ==
    \/ processStepStart
    \/ \E delta \in ReasoningDeltas \cup {<<>>} : processReasoning(delta)
    \/ \E key \in Keys, delta \in Deltas : processText(key, delta, <<>>)
    \/ \E key \in Keys, text \in FullTexts \cup {<<>>} : processText(key, <<>>, text)
    \/ \E part \in ToolParts : processToolUse(part.key, part.name)
    \/ \E diff \in DiffInputs : processDiff(diff)
    \/ acceptInput
    \/ details

Spec == Init /\ [][Next]_vars

\* ------------------------------------------------------------------------
\* The terminal
\* ------------------------------------------------------------------------

\* The characters the last render wrote after its clear sequence
Written ==
    IF columns # 0
    THEN ForEach(LAMBDA acc, k : acc \o out.lines[k] \o <<NL>>, <<>>, 1, Len(out.lines))
    ELSE out.raw

\* One character c written to a terminal of this width: a new line moves the
\* cursor to the start of the next row, a carriage return to the start of the
\* row, and a printable character written after the last column of a row
\* goes to the next row
TerminalBody(t, c, width) ==
    IF c = NL THEN [rows |-> t.rows + 1, col |-> 0]
    ELSE IF c = CR THEN [t EXCEPT !.col = 0]
    ELSE IF t.col = width THEN [rows |-> t.rows + 1, col |-> 1]
    ELSE [t EXCEPT !.col = @ + 1]

\* The rows the cursor moves down when text is written from the start of a row
TerminalRows(text, width) ==
    Strict(stripAnsiCodes(text),
           LAMBDA s : ForEach(LAMBDA t, k : TerminalBody(t, s[k], width),
                              [rows |-> 0, col |-> 0], 1, Len(s)).rows)

\* ------------------------------------------------------------------------
\* Claims
\* ------------------------------------------------------------------------

Parts == accumulatedResponse

Idx == 1..Len(accumulatedResponse)

IsPainted(i) == \E k \in 1..Len(out.painted) : out.painted[k] = i

Blank(text) == trim(text) = <<>>

EndsWith(text, d) == Len(text) >= Len(d) /\ SubSeq(text, Len(text) - Len(d) + 1, Len(text)) = d

SameContent(p, q) ==
    /\ Len(p) = Len(q)
    /\ \A i \in 1..Len(p) : p[i].title = q[i].title /\ p[i].text = q[i].text

\* C1: after a render that painted a non-empty block, renderedLinesCount is the
\* number of terminal rows the block occupies at the terminal width (the
\* width render assumed when stdout has none).
C1_CountIsRows ==
    (out.kind # "none" /\ Written # <<>>)
        => renderedLinesCount = TerminalRows(Written, ConsoleWidth(columns))

\* C2: a render that follows a render of the same kind with no change to the
\* parts in between writes the same block, clears exactly the
\* renderedLinesCount the first render left, and leaves the same count.
C2_Idempotent ==
    [][(/\ ev'.rendered
        /\ out.kind # "none"
        /\ out'.kind = out.kind
        /\ SameContent(accumulatedResponse, accumulatedResponse'))
       => (/\ out'.lines = out.lines
           /\ out'.raw = out.raw
           /\ out'.cleared = renderedLinesCount
           /\ renderedLinesCount' = renderedLinesCount)]_vars

\* C2 witness: a render that changed no part repainted a non-empty block
C2_Witness ==
    /\ ev.rendered /\ ~ev.mutated
    /\ out.kind = "plain"
    /\ out.cleared > 0
    /\ Written # <<>>

\* C3: every line wrapText returned to render has a visible length of at most
\* the width.
C3_LinesFit ==
    columns # 0 =>
        \A k \in 1..Len(out.lines) : Len(stripAnsiCodes(out.lines[k])) <= columns

\* C4: no two parts of the turn were pushed for the same part key.
C4_OnePartPerKey ==
    \A i, j \in Idx : (i < j /\ Parts[i].key # "") => Parts[i].key # Parts[j].key

\* C5: after processText has applied a delta of a key that had no part, a part
\* of that key exists whose text is exactly the delta.
C5_FreshDelta ==
    (ev.type = "text" /\ ev.applied /\ ev.delta # <<>> /\ ev.fresh)
        => \E i \in Idx : Parts[i].key = ev.key /\ Parts[i].text = ev.delta

\* C6: after a reasoning delta has been processed, the text of some part ends
\* with the delta.
C6_ReasoningKept ==
    (ev.type = "reasoning" /\ ev.delta # <<>>)
        => \E i \in Idx : EndsWith(Parts[i].text, ev.delta)

\* C7: after a non-detailed render no thinking part that has a later thinking
\* part is active (so at most one thinking part is active).
C7_OneActiveThinking ==
    out.kind = "plain" =>
        \A i, j \in Idx :
            (i < j /\ Parts[i].title = "thinking" /\ Parts[j].title = "thinking")
                => ~Parts[i].active

\* C7 witness: two thinking parts, the later one active and painted
C7_Witness ==
    /\ out.kind = "plain"
    /\ \E i, j \in Idx :
        /\ i < j /\ Parts[i].title = "thinking" /\ Parts[j].title = "thinking"
        /\ Parts[j].active /\ IsPainted(j)

\* C8 as stated: after a non-detailed render every response part and every
\* files part with non-empty text is active and painted.
C8_Original ==
    out.kind = "plain" =>
        \A i \in Idx :
            (Parts[i].title \in {"response", "files"} /\ Parts[i].text # <<>>)
                => (Parts[i].active /\ IsPainted(i))

\* C8 amended: after a non-detailed render every response part is active, a
\* files part is active exactly when no files part follows it, and an active
\* response or files part is painted when its text is not blank.
C8_Amended ==
    out.kind = "plain" =>
        \A i \in Idx :
            /\ Parts[i].title = "response" => Parts[i].active
            /\ Parts[i].title = "files" =>
                (Parts[i].active <=> ~\E j \in Idx : j > i /\ Parts[j].title = "files")
            /\ (Parts[i].title \in {"response", "files"} /\ Parts[i].active
                    /\ ~Blank(Parts[i].text))
                => IsPainted(i)

\* C8 witness: two files parts, the earlier one inactive and the later one
\* painted
C8_Witness ==
    /\ out.kind = "plain"
    /\ \E i, j \in Idx :
        /\ i < j /\ Parts[i].title = "files" /\ Parts[j].title = "files"
        /\ ~Parts[i].active /\ IsPainted(j)

\* C9: after a non-detailed render at most one tool part is active.
C9_OneActiveTool ==
    out.kind = "plain" =>
        \A i, j \in Idx :
            (i < j /\ Parts[i].title = "tool" /\ Parts[j].title = "tool")
                => ~(Parts[i].active /\ Parts[j].active)

\* The last thinking part of the sequence
LastThinking(i) ==
    /\ Parts[i].title = "thinking"
    /\ ~\E j \in Idx : j > i /\ Parts[j].title = "thinking"

\* C10 as stated: after a non-detailed render the most recent thinking part is
\* active, whatever comes after it.
C10_Original ==
    out.kind = "plain" => \A i \in Idx : LastThinking(i) => Parts[i].active

\* C10 amended: after a non-detailed render the most recent thinking part is
\* active exactly when no response part comes after it.
C10_Amended ==
    out.kind = "plain" =>
        \A i \in Idx :
            LastThinking(i) =>
                (Parts[i].active <=> ~\E j \in Idx : j > i /\ Parts[j].title = "response")

\* C10 witness: the most recent thinking part is active with a tool part after
\* it
C10_Witness ==
    /\ out.kind = "plain"
    /\ \E i, j \in Idx :
        /\ LastThinking(i) /\ j > i /\ Parts[j].title = "tool"
        /\ Parts[i].active

\* C11 as stated: in a non-detailed render a thinking or tool part followed
\* later by a response part is not painted, and that response part is painted.
C11_Original ==
    out.kind = "plain" =>
        \A i, j \in Idx :
            (i < j /\ Parts[i].title \in {"thinking", "tool"} /\ Parts[j].title = "response")
                => (~IsPainted(i) /\ IsPainted(j))

\* C11 amended: in a non-detailed render a thinking or tool part followed later
\* by a response part is not painted, and that response part is painted when
\* its text is not blank.
C11_Amended ==
    out.kind = "plain" =>
        \A i, j \in Idx :
            (i < j /\ Parts[i].title \in {"thinking", "tool"} /\ Parts[j].title = "response")
                => (~IsPainted(i) /\ (~Blank(Parts[j].text) => IsPainted(j)))

\* C11 witness: a thinking part with text, not painted, before a painted
\* response part
C11_Witness ==
    /\ out.kind = "plain"
    /\ \E i, j \in Idx :
        /\ i < j /\ Parts[i].title = "thinking" /\ ~Blank(Parts[i].text)
        /\ Parts[j].title = "response"
        /\ ~IsPainted(i) /\ IsPainted(j)

\* C12: after a detailed render every part is active and every part whose text
\* is not blank is painted.
C12_DetailsShowsAll ==
    out.kind = "details" =>
        \A i \in Idx : Parts[i].active /\ (~Blank(Parts[i].text) => IsPainted(i))

\* C12 witness: a detailed render painted a tool part that a response part
\* follows
C12_Witness ==
    /\ out.kind = "details"
    /\ \E i, j \in Idx :
        /\ i < j /\ Parts[i].title = "tool" /\ Parts[j].title = "response"
        /\ IsPainted(i) /\ IsPainted(j)

\* The write calls that carry the content of the last render, from what it
\* painted
ContentOf(o) ==
    IF columns # 0
    THEN ForEach(LAMBDA acc, k : acc \o <<o.lines[k], <<NL>>>>, <<>>, 1, Len(o.lines))
    ELSE IF o.raw # <<>> THEN <<o.raw>> ELSE <<>>

AllEmpty == \A i \in Idx : Parts[i].text = <<>>

C20_FullReplace ==
    (ev.type = "text" /\ ev.applied /\ ev.delta = <<>> /\ ev.text # <<>>)
        => \E i \in Idx : Parts[i].key = ev.key /\ Parts[i].text = ev.text

\* ------------------------------------------------------------------------
\* wrapText on its own
\* ------------------------------------------------------------------------

\* Most pieces a text given to wrapText is put together from
MaxTokens == 5

\* An escape sequence that ANSI_CODE_PATTERN matches
SGR == <<ESC, "[", "1", "m">>

\* The pieces of the texts: a printable character, the white space characters
\* wrapText tells apart, and an escape sequence
WrapTokens == {<<"a">>, <<SP>>, <<NL>>, <<CR>>, SGR}

\* The widths wrapText is called with
WrapWidths == {2, 3}

\* The module state of index.ts before any event
StreamIdle ==
    /\ accumulatedResponse = <<>>
    /\ renderedLinesCount = 0
    /\ seenParts = {}
    /\ processing = TRUE
    /\ columns = 0
    /\ out = NoOut
    /\ ev = NoEv
    /\ nEvents = 0

\* wrapText called with the empty text
WrapStart ==
    /\ StreamIdle
    /\ TermIdle
    /\ ListenIdle
    /\ LateIdle
    /\ PromptIdle
    /\ wText = <<>>
    /\ wWidth \in WrapWidths
    /\ wLines = wrapText(<<>>, wWidth)
    /\ wLen = 0

\* wrapText called with the text made one piece longer
callWrapText(tok) ==
    /\ wLen < MaxTokens
    /\ wText' = wText \o tok
    /\ wLines' = wrapText(wText', wWidth)
    /\ wLen' = wLen + 1
    /\ UNCHANGED <<wWidth, streamVars, termVars, listenVars, lateVars, promptVars>>

WrapNext == \E tok \in WrapTokens : callWrapText(tok)

WrapSpec == WrapStart /\ [][WrapNext]_vars

VisLen(line) == Len(stripAnsiCodes(line))

\* A text that is one token of printable characters
PlainToken(t) == t # <<>> /\ \A k \in 1..Len(t) : t[k] = "a"

\* The pieces of w characters of t, the last one possibly shorter
Chunks(t, w) ==
    [k \in 1..((Len(t) + w - 1) \div w) |->
        SubSeq(t, (k - 1) * w + 1, IF k * w < Len(t) THEN k * w ELSE Len(t))]

\* C16: no line wrapText returns is longer than the width, whatever precedes a
\* token longer than the width, and a text that is one such token comes back
\* as its pieces of exactly width characters.
C16_HardSplit ==
    /\ \A k \in 1..Len(wLines) : VisLen(wLines[k]) <= wWidth
    /\ (PlainToken(wText) /\ Len(wText) > wWidth) => wLines = Chunks(wText, wWidth)

\* The characters of t that are not white space, in order
NonSpace(t) == SelectSeq(t, LAMBDA c : c \notin WhiteSpace)

\* The lines one after the other
Joined(ls) == ForEach(LAMBDA acc, k : acc \o ls[k], <<>>, 1, Len(ls))

\* C17: the lines wrapText returns hold every escape sequence and every
\* printable character of the text, each once and in the order of the text.
C17_EscapesKept == NonSpace(Joined(wLines)) = NonSpace(wText)

EndsVisible(t) == t # <<>> /\ t[Len(t)] = "a"

RemoveCR(t) == SelectSeq(t, LAMBDA c : c # CR)

CRToSpace(t) == [k \in 1..Len(t) |-> IF t[k] = CR THEN SP ELSE t[k]]

\* What C18 says of new lines: after a text that ends in a printable character
\* one new line adds no line, two add one empty line, and two followed by a
\* word add the empty line and the word's line.
NewLineRules ==
    EndsVisible(wText) =>
        /\ wrapText(wText \o <<NL>>, wWidth) = wLines
        /\ wrapText(wText \o <<NL, NL>>, wWidth) = Append(wLines, <<>>)
        /\ wrapText(wText \o <<NL, NL, "a">>, wWidth) = wLines \o << <<>>, <<"a">> >>

\* C18 as stated: the new line rules hold and removing every carriage return
\* from the text does not change the lines.
C18_Original == NewLineRules /\ wrapText(RemoveCR(wText), wWidth) = wLines

\* C18 amended: the new line rules hold and a carriage return acts as a space:
\* replacing every carriage return by a space does not change the lines.
C18_Amended == NewLineRules /\ wrapText(CRToSpace(wText), wWidth) = wLines

\* C18 witness: a carriage return between two printable characters came back
\* as the space between two words
C18_Witness == wText = <<"a", CR, "a">> /\ wLines = << <<"a", SP, "a">> >>

\* C19: wrapText never returns an empty sequence, and for the empty text it
\* returns one line, the empty string.
C19_NeverEmpty == wLines # <<>> /\ (wText = <<>> => wLines = << <<>> >>)

\* C19 witness: wrapText was called with the empty text and returned the one
\* empty line
C19_Witness == wText = <<>> /\ wWidth = 2 /\ wLines = << <<>> >>

\* ------------------------------------------------------------------------
\* The block on the terminal (render.ts, the input loop of index.ts)
\* ------------------------------------------------------------------------
\* screen holds one entry per terminal row, down to the row of the cursor, which
\* is the last one: nothing is ever left below the cursor, because every
\* cursor-up is followed by an erase to the end of the screen. An entry says
\* what wrote the row:
\*   "block"    the last render of the turn
\*   "stale"    an earlier render of the turn
\*   "history"  a render of an earlier turn
\*   "sending"  the two rows acceptInput logs before sendMessage
\*   "prompt"   the prompt "> " and the text typed after it
\*   "other"    any other output
\*   "empty"    nothing

\* Most steps taken on the terminal in one run of the model
MaxSteps == 5

\* The numbers of rows a render paints
BlockRows == {0, 1, 2}

Max(a, b) == IF a > b THEN a ELSE b

\* Text written at the cursor: an empty row becomes the writer's
WriteOnRow(s, tag) == [s EXCEPT ![Len(s)] = IF @ = "empty" THEN tag ELSE @]

\* The rows with every row of the block marked as now
Retag(s, now) == [k \in 1..Len(s) |-> IF s[k] = "block" THEN now ELSE s[k]]

\* main, up to its first prompt: the session line, an empty line and "> "
TermStart ==
    /\ StreamIdle
    /\ WrapIdle
    /\ ListenIdle
    /\ LateIdle
    /\ PromptIdle
    /\ screen = <<"other", "other", "prompt">>
    /\ inputBuffer = <<>>
    /\ inFlight = 0
    /\ erased = <<>>
    /\ tEv = "none"
    /\ tSteps = 0

\* The keypress handler for a printable key: the character goes into
\* inputBuffer and renderLine rewrites the row of the cursor
keypress ==
    /\ tSteps < MaxSteps
    /\ inputBuffer' = <<"x">>
    /\ cursorPosition' = 1
    /\ completionCycling' = FALSE
    /\ completions' = <<>>
    /\ UNCHANGED <<selectedCompletion, tabPrefix, pEv, pSteps>>
    /\ screen' = [screen EXCEPT ![Len(screen)] = "prompt"]
    /\ tEv' = "key"
    /\ tSteps' = tSteps + 1
    /\ UNCHANGED <<streamVars, wrapVars, listenVars, lateVars, inFlight, erased>>

\* The keypress handler for Esc: completion cycling ends and the row of the
\* cursor is cleared and rewritten with the prompt and inputBuffer
escape ==
    /\ tSteps < MaxSteps
    /\ screen' = [screen EXCEPT ![Len(screen)] = "prompt"]
    /\ tEv' = "escape"
    /\ completionCycling' = FALSE
    /\ UNCHANGED <<cursorPosition, completions, selectedCompletion, tabPrefix, pEv, pSteps>>
    /\ tSteps' = tSteps + 1
    /\ UNCHANGED <<streamVars, wrapVars, listenVars, lateVars, inputBuffer, inFlight, erased>>

\* acceptInput for a message, up to the await of sendMessage: a new line, the
\* two "Sending..." rows, renderedLinesCount = 2
acceptInputSend ==
    /\ tSteps < MaxSteps
    /\ inputBuffer # <<>>
    /\ screen' = Retag(screen, "history") \o <<"sending", "sending", "empty">>
    /\ renderedLinesCount' = SendingRows
    /\ inFlight' = inFlight + 1
    /\ tEv' = "send"
    /\ tSteps' = tSteps + 1
    /\ UNCHANGED <<accumulatedResponse, seenParts, processing, columns, out, ev, nEvents,
                   wrapVars, listenVars, lateVars, promptVars, inputBuffer, erased>>

\* acceptInput after sendMessage has returned: inputBuffer is emptied and the
\* prompt written
sendReturned ==
    /\ tSteps < MaxSteps
    /\ inFlight > 0
    /\ inFlight' = inFlight - 1
    /\ PromptReset
    /\ UNCHANGED <<selectedCompletion, tabPrefix, pEv, pSteps>>
    /\ screen' = WriteOnRow(screen, "prompt")
    /\ tEv' = "prompt"
    /\ tSteps' = tSteps + 1
    /\ UNCHANGED <<streamVars, wrapVars, listenVars, lateVars, erased>>

\* An acceptInput that discards the turn when sendMessage has thrown
sendFailedDiscard ==
    /\ tSteps < MaxSteps
    /\ inFlight > 0
    /\ inFlight' = inFlight - 1
    /\ PromptReset
    /\ UNCHANGED <<selectedCompletion, tabPrefix, pEv, pSteps>>
    /\ screen' = Append(WriteOnRow(screen, "other"), "prompt")
    /\ tEv' = "error"
    /\ tSteps' = tSteps + 1
    /\ accumulatedResponse' = <<>>
    /\ renderedLinesCount' = 0
    /\ UNCHANGED <<seenParts, processing, columns, out, ev, nEvents>>
    /\ UNCHANGED <<wrapVars, listenVars, lateVars, erased>>

\* acceptInput after sendMessage has thrown: the error line, then as above
sendFailed ==
    /\ tSteps < MaxSteps
    /\ inFlight > 0
    /\ inFlight' = inFlight - 1
    /\ PromptReset
    /\ UNCHANGED <<selectedCompletion, tabPrefix, pEv, pSteps>>
    /\ screen' = Append(WriteOnRow(screen, "other"), "prompt")
    /\ tEv' = "error"
    /\ tSteps' = tSteps + 1
    /\ UNCHANGED <<streamVars, wrapVars, listenVars, lateVars, erased>>

\* render for an event of the turn in flight, painting a block of rows rows:
\* clearRenderedLines moves the cursor up renderedLinesCount rows and erases to
\* the end of the screen, then each line is written with its new line
streamRender(rows) ==
    /\ tSteps < MaxSteps
    /\ inFlight > 0
    /\ \E top \in {Max(1, Len(screen) - clearRenderedLines(renderedLinesCount))} :
        \E kept \in {IF renderedLinesCount > 0
                     THEN Append(SubSeq(screen, 1, top - 1), "empty")
                     ELSE screen} :
            /\ erased' = IF renderedLinesCount > 0
                         THEN SubSeq(screen, top, Len(screen)) ELSE <<>>
            /\ screen' = IF rows = 0 THEN Retag(kept, "stale")
                         ELSE Retag(SubSeq(kept, 1, Len(kept) - 1), "stale")
                              \o <<IF kept[Len(kept)] = "empty" THEN "block"
                                   ELSE kept[Len(kept)]>>
                              \o [k \in 1..(rows - 1) |-> "block"]
                              \o <<"empty">>
    /\ renderedLinesCount' = rows
    /\ tEv' = "render"
    /\ tSteps' = tSteps + 1
    /\ UNCHANGED <<accumulatedResponse, seenParts, processing, columns, out, ev, nEvents,
                   wrapVars, listenVars, lateVars, promptVars, inputBuffer, inFlight>>

TermNext ==
    \/ keypress
    \/ escape
    \/ acceptInputSend
    \/ sendReturned
    \/ sendFailed
    \/ \E rows \in BlockRows : streamRender(rows)

TermSpec == TermStart /\ [][TermNext]_vars

\* C15: the clear step of a render erases only rows of the block it replaces
\* (the rows of the previous render, the "Sending..." rows, the empty row of
\* the cursor), never the prompt, typed text or other output, and no row of an
\* earlier render of the turn is left on the screen.
C15_ClearExact ==
    tEv = "render" =>
        /\ \A k \in 1..Len(erased) : erased[k] \in {"block", "sending", "empty"}
        /\ \A k \in 1..Len(screen) : screen[k] # "stale"

\* ------------------------------------------------------------------------
\* Claims on the parts the events append
\* ------------------------------------------------------------------------

\* C21: diff events that report the same content leave one files part: no files
\* part is followed directly by a files part with the same text.
C21_DiffOnce ==
    \A i \in Idx :
        (i < Len(Parts) /\ Parts[i].title = "files" /\ Parts[i + 1].title = "files")
            => Parts[i].text # Parts[i + 1].text

\* C22: a tool event that finds a tool part at the end of the sequence changes
\* that part and appends none: no tool part is followed directly by a tool part.
C22_ToolInPlace ==
    \A i \in Idx :
        i < Len(Parts) => ~(Parts[i].title = "tool" /\ Parts[i + 1].title = "tool")

\* ------------------------------------------------------------------------
\* The events of a turn in flight (processEvent, processPart, sendMessage)
\* ------------------------------------------------------------------------

\* processEvent, default branch; processPart, "step-finish" and default
\* branches: nothing but lastEventTime changes (type: what ev records)
ignoreEvent(type) ==
    /\ nEvents < MaxEvents
    /\ ev' = [NoEv EXCEPT !.type = type]
    /\ nEvents' = nEvents + 1
    /\ UNCHANGED <<accumulatedResponse, renderedLinesCount, seenParts, processing,
                   columns, out>>
    /\ UNCHANGED <<wrapVars, termVars, listenVars, lateVars, promptVars>>

\* A processPart that takes every part type it does not know for a text part
processPartLenient(part, delta) ==
    IF part.type = "step-start" THEN processStepStart
    ELSE IF part.type = "reasoning" THEN processReasoning(delta)
    ELSE IF part.type = "tool_use" THEN processToolUse(part.key, part.name)
    ELSE IF part.type = "step-finish" THEN ignoreEvent("step-finish")
    ELSE processText(part.key, delta, part.text)

\* processPart(part, delta); part.key stands for part.messageID and part.id
processPart(part, delta) ==
    IF part.type = "step-start" THEN processStepStart
    ELSE IF part.type = "reasoning" THEN processReasoning(delta)
    ELSE IF part.type = "text" THEN processText(part.key, delta, part.text)
    ELSE IF part.type = "step-finish" THEN ignoreEvent("step-finish")
    ELSE IF part.type = "tool_use" THEN processToolUse(part.key, part.name)
    ELSE ignoreEvent("unknown")

\* processEvent(event)
processEvent(event) ==
    IF event.type = "message.part.updated" THEN processPart(event.part, event.delta)
    ELSE IF event.type = "session.diff" THEN processDiff(event.diff)
    ELSE ignoreEvent("unknown")

\* A message.part.updated event
PartEvent(type, key, delta, text, name) ==
    [type |-> "message.part.updated",
     part |-> [type |-> type, key |-> key, text |-> text, name |-> name],
     delta |-> delta, diff |-> <<>>]

\* An event of another type
OtherEvent(type, diff) ==
    [type |-> type, part |-> [type |-> "", key |-> "", text |-> <<>>, name |-> <<>>],
     delta |-> <<>>, diff |-> diff]

\* The text part of the turn that was in flight before the message was sent
OldKey == "m1-p1"

\* The text part of the turn of the message sent
NewKey == "m2-p1"

\* The delta events that belong to the turn abandoned by the send
OldTurnEvents ==
    {PartEvent("text", OldKey, <<"o", "l", "d">>, <<>>, <<>>),
     PartEvent("reasoning", "m1-p0", <<"o", "l", "d">>, <<>>, <<>>)}

\* The events with a type or a part type processEvent does not know
UnknownEvents ==
    {PartEvent("snapshot", "m2-p9", <<"a">>, <<"a">>, <<>>),
     OtherEvent("session.idle", <<[file |-> <<"f">>, status |-> "modified",
                                   additions |-> 12, deletions |-> 0]>>)}

\* The events of the turn of the message sent
TurnEvents ==
    {PartEvent("step-start", "m2-p0", <<>>, <<>>, <<>>),
     PartEvent("reasoning", "m2-p0", <<"a", SP>>, <<>>, <<>>),
     PartEvent("text", NewKey, <<"a", SP>>, <<>>, <<>>),
     PartEvent("text", NewKey, <<>>, <<"o", "k">>, <<>>),
     PartEvent("tool_use", "m2-p3", <<>>, <<>>, <<"s", "h">>),
     PartEvent("step-finish", "m2-p8", <<>>, <<>>, <<>>),
     OtherEvent("session.diff", <<[file |-> <<"f">>, status |-> "modified",
                                   additions |-> 12, deletions |-> 0]>>)}

Events == TurnEvents \cup OldTurnEvents \cup UnknownEvents

\* acceptInput has logged the "Sending..." rows and sendMessage has reset the
\* turn and awaits the response
EventStart ==
    /\ accumulatedResponse = <<>>
    /\ renderedLinesCount = SendingRows
    /\ seenParts = {}
    /\ processing = FALSE
    /\ columns \in Widths
    /\ out = NoOut
    /\ ev = NoEv
    /\ nEvents = 0
    /\ WrapIdle
    /\ ListenIdle
    /\ LateIdle
    /\ cursorPosition = 1
    /\ completions = <<>>
    /\ selectedCompletion = 0
    /\ completionCycling = FALSE
    /\ tabPrefix = <<>>
    /\ pEv = [key |-> "none", run |-> 0]
    /\ pSteps = 0
    /\ screen = <<"other", "other", "prompt", "sending", "sending", "empty">>
    /\ inputBuffer = <<"x">>
    /\ inFlight = 1
    /\ erased = <<>>
    /\ tEv = "send"
    /\ tSteps = 2

EventNext ==
    \/ \E event \in Events : processEvent(event)
    \/ sendReturned
    \/ sendFailed

EventSpec == EventStart /\ [][EventNext]_vars

\* The indices of the parts render paints, in the order of the sequence
PaintedIndices(parts) ==
    ForEach(LAMBDA acc, i : IF Painted(parts[i]) THEN Append(acc, i) ELSE acc,
            <<>>, 1, Len(parts))

\* The labelled texts of the painted parts, concatenated in the order painted
PaintedOutput(parts, painted, width) ==
    ForEach(LAMBDA acc, k : acc \o PartOutput(parts[painted[k]], FALSE, width),
            <<>>, 1, Len(painted))

\* C23: within a turn every step leaves each existing part at its place with
\* its kind and key and adds at most one part, at the end; and a render paints
\* exactly the active parts with text, in the order of the sequence.
C23_AppendOnly ==
    [][/\ Len(accumulatedResponse') \in {Len(accumulatedResponse),
                                         Len(accumulatedResponse) + 1}
       /\ \A i \in 1..Len(accumulatedResponse) :
            /\ accumulatedResponse'[i].title = accumulatedResponse[i].title
            /\ accumulatedResponse'[i].key = accumulatedResponse[i].key
       /\ ev'.rendered =>
            /\ out'.painted = PaintedIndices(accumulatedResponse')
            /\ \A k \in 1..(Len(out'.painted) - 1) : out'.painted[k] < out'.painted[k + 1]
            /\ columns = 0 =>
                out'.raw = PaintedOutput(accumulatedResponse', out'.painted, columns)]_vars

\* C23 witness: a render painted two parts of different kinds, the earlier
\* part first, after an event changed the text of an existing part
C23_Witness ==
    /\ ev.rendered /\ ev.mutated /\ ~ev.fresh
    /\ ev.type \in {"text", "reasoning"}
    /\ Len(out.painted) >= 2
    /\ out.painted[1] < out.painted[2]
    /\ Parts[out.painted[1]].title # Parts[out.painted[2]].title

\* C25: after sendMessage has reset the turn, a delta event of the turn it
\* abandoned leaves the parts of the new turn with the titles and texts they
\* had.
C25_OldTurnInert ==
    [][\A event \in OldTurnEvents :
        processEvent(event) => SameContent(accumulatedResponse, accumulatedResponse')]_vars

\* C27: the step processEvent takes for an event of an unknown type, or for a
\* part update of an unknown part type, renders nothing and leaves the parts,
\* renderedLinesCount, the processing flag and what is on the terminal as
\* they were.
C27_UnknownNoOp ==
    [][\A event \in UnknownEvents :
        processEvent(event) =>
            /\ ~ev'.rendered
            /\ UNCHANGED <<accumulatedResponse, renderedLinesCount, processing, out>>]_vars

\* C27 witness: an unknown event arrived while the turn was processing, with
\* a painted block of parts on the terminal
C27_Witness ==
    /\ ev.type = "unknown"
    /\ processing
    /\ accumulatedResponse # <<>>
    /\ renderedLinesCount > 0
    /\ out.painted # <<>>

\* C29: the step in which acceptInput catches the error sendMessage threw
\* writes the error line and leaves the parts accumulated so far and
\* renderedLinesCount exactly as they were.
C29_FailureKeepsTurn ==
    [][(tSteps' # tSteps /\ tEv' = "error") =>
        /\ accumulatedResponse' = accumulatedResponse
        /\ renderedLinesCount' = renderedLinesCount
        /\ \E k \in Len(screen)..Len(screen') : screen'[k] = "other"]_vars

\* C29 witness: the send failed with parts accumulated and a block painted
C29_Witness ==
    /\ tEv = "error"
    /\ accumulatedResponse # <<>>
    /\ \E i \in Idx : Parts[i].text # <<>>
    /\ renderedLinesCount > 0

\* C24: at most one sendMessage is awaited at any time.
C24_OneInFlight == inFlight <= 1

\* C30: once the Esc keypress has been handled no send is in flight.
C30_EscCancels == tEv = "escape" => inFlight = 0

\* ------------------------------------------------------------------------
\* The event feed (startEventListener)
\* ------------------------------------------------------------------------

MaxReads == 3

\* "data: "
DataPrefix == <<"d", "a", "t", "a", ":", SP>>

\* The data of a message: "s" and "r" stand for the JSON texts of a step-start
\* and of a reasoning event, "x" for a text that is not JSON, "D" for [DONE]
GoodData == {<<"s">>, <<"r">>}

DONE == <<"D">>

\* JSON.parse(data), for the data it does not throw on
Parse(data) ==
    IF data = <<"s">> THEN PartEvent("step-start", "m1-p0", <<>>, <<>>, <<>>)
    ELSE PartEvent("reasoning", "m1-p0", <<"a", SP>>, <<>>, <<>>)

\* A message on the wire
Message(data) == DataPrefix \o data \o <<NL>>

\* What one reader.read() can return: whole messages, two messages at once, a
\* message cut in two, a comment line, a line end alone
ReadChunks ==
    {Message(<<"s">>),
     Message(<<"x">>) \o Message(<<"r">>),
     Message(DONE),
     <<"d", "a", "t">>,
     <<"a", ":", SP, "r", NL>>,
     <<":", NL>>,
     <<"x">>}

\* buffer.split("\n"): the pieces before each "\n" and the piece after the last
SplitLines(text) ==
    ForEach(LAMBDA acc, i :
                IF text[i] = NL
                THEN [done |-> Append(acc.done, acc.cur), cur |-> <<>>]
                ELSE [acc EXCEPT !.cur = Append(@, text[i])],
            [done |-> <<>>, cur |-> <<>>], 1, Len(text))

\* line.startsWith("data: ")
StartsWithData(l) == Len(l) >= Len(DataPrefix) /\ SubSeq(l, 1, Len(DataPrefix)) = DataPrefix

\* line.substring(6)
DataOf(l) == SliceFrom(l, Len(DataPrefix))

\* The for loop has called processEvent and the call has not returned
CallPending == call.at = nEvents

\* The loop is at reader.read()
AtRead == listener = "reading" /\ pendingLines = <<>> /\ ~CallPending

\* startEventListener is called
ListenStart ==
    /\ StreamIdle
    /\ WrapIdle
    /\ TermIdle
    /\ PromptIdle
    /\ LateIdle
    /\ listener = "connecting"
    /\ warned = FALSE
    /\ buffer = <<>>
    /\ pendingLines = <<>>
    /\ call = NoCall
    /\ received = <<>>
    /\ delivered = <<>>
    /\ nReads = 0

\* The fetch of /event answers: with a body to read, with a status that is
\* not OK (a warning is written), or by throwing (the outer catch)
connect(outcome) ==
    /\ listener = "connecting"
    /\ listener' = IF outcome = "ok" THEN "reading" ELSE outcome
    /\ warned' = (outcome = "refused")
    /\ UNCHANGED <<buffer, pendingLines, call, received, delivered, nReads>>
    /\ UNCHANGED <<streamVars, wrapVars, termVars, promptVars, lateVars>>

\* A loop that splits each chunk on its own and does not keep the piece after
\* the last "\n" for the next read
readChunkNoCarry(chunk) ==
    /\ AtRead
    /\ nReads < MaxReads
    /\ \E r \in {SplitLines(chunk)} :
        /\ pendingLines' = r.done
        /\ buffer' = <<>>
    /\ received' = received \o chunk
    /\ nReads' = nReads + 1
    /\ UNCHANGED <<listener, warned, call, delivered>>
    /\ UNCHANGED <<streamVars, wrapVars, termVars, promptVars, lateVars>>

\* reader.read() returns a chunk: buffer += chunk, lines = buffer.split("\n"),
\* buffer = lines.pop() || ""
readChunk(chunk) ==
    /\ AtRead
    /\ nReads < MaxReads
    /\ \E r \in {SplitLines(buffer \o chunk)} :
        /\ pendingLines' = r.done
        /\ buffer' = r.cur
    /\ received' = received \o chunk
    /\ nReads' = nReads + 1
    /\ UNCHANGED <<listener, warned, call, delivered>>
    /\ UNCHANGED <<streamVars, wrapVars, termVars, promptVars, lateVars>>

\* reader.read() returns done, or throws: the loop breaks and
\* startEventListener returns
readEnd(cause) ==
    /\ AtRead
    /\ listener' = cause
    /\ UNCHANGED <<warned, buffer, pendingLines, call, received, delivered, nReads>>
    /\ UNCHANGED <<streamVars, wrapVars, termVars, promptVars, lateVars>>

\* The for loop at a line that does not start with "data: ", or whose data is
\* [DONE]: on to the next line
skipLine ==
    /\ listener = "reading" /\ ~CallPending
    /\ pendingLines # <<>>
    /\ ~StartsWithData(Head(pendingLines)) \/ DataOf(Head(pendingLines)) = DONE
    /\ pendingLines' = Tail(pendingLines)
    /\ UNCHANGED <<listener, warned, buffer, call, received, delivered, nReads>>
    /\ UNCHANGED <<streamVars, wrapVars, termVars, promptVars, lateVars>>

\* The for loop at a data line whose data JSON.parse accepts: processEvent is
\* called with the event
callProcessEvent ==
    /\ listener = "reading" /\ ~CallPending
    /\ pendingLines # <<>>
    /\ StartsWithData(Head(pendingLines))
    /\ DataOf(Head(pendingLines)) \in GoodData
    /\ call' = [event |-> Parse(DataOf(Head(pendingLines))), at |-> nEvents]
    /\ delivered' = Append(delivered, DataOf(Head(pendingLines)))
    /\ pendingLines' = Tail(pendingLines)
    /\ UNCHANGED <<listener, warned, buffer, received, nReads>>
    /\ UNCHANGED <<streamVars, wrapVars, termVars, promptVars, lateVars>>

\* A for loop that lets the error of JSON.parse reach the catch of the while
\* loop, which breaks
parseFailedBreak ==
    /\ listener = "reading" /\ ~CallPending
    /\ pendingLines # <<>>
    /\ StartsWithData(Head(pendingLines))
    /\ DataOf(Head(pendingLines)) \notin GoodData \cup {DONE}
    /\ pendingLines' = <<>>
    /\ listener' = "error"
    /\ UNCHANGED <<warned, buffer, call, received, delivered, nReads>>
    /\ UNCHANGED <<streamVars, wrapVars, termVars, promptVars, lateVars>>

\* The for loop at a data line whose data JSON.parse throws on: the empty
\* catch, then on to the next line
parseFailed ==
    /\ listener = "reading" /\ ~CallPending
    /\ pendingLines # <<>>
    /\ StartsWithData(Head(pendingLines))
    /\ DataOf(Head(pendingLines)) \notin GoodData \cup {DONE}
    /\ pendingLines' = Tail(pendingLines)
    /\ UNCHANGED <<listener, warned, buffer, call, received, delivered, nReads>>
    /\ UNCHANGED <<streamVars, wrapVars, termVars, promptVars, lateVars>>

\* The body of the processEvent call the for loop made
runProcessEvent ==
    /\ CallPending
    /\ processEvent(call.event)

ListenNext ==
    \/ \E outcome \in {"ok", "refused", "threw"} : connect(outcome)
    \/ \E chunk \in ReadChunks : readChunk(chunk)
    \/ \E cause \in {"done", "error"} : readEnd(cause)
    \/ skipLine
    \/ callProcessEvent
    \/ parseFailed
    \/ runProcessEvent

ListenSpec == ListenStart /\ [][ListenNext]_vars

\* The complete lines of all the text received so far
ReceivedLines == SplitLines(received).done

\* A data line whose data is JSON / is not JSON
GoodLine(l) == StartsWithData(l) /\ DataOf(l) \in GoodData

BadLine(l) == StartsWithData(l) /\ DataOf(l) \notin GoodData \cup {DONE}

\* The data of the well-formed messages among these lines, in order
GoodDataOf(ls) ==
    ForEach(LAMBDA acc, k : IF GoodLine(ls[k]) THEN Append(acc, DataOf(ls[k])) ELSE acc,
            <<>>, 1, Len(ls))

\* The for loop is about to look at a message that is not JSON
AtBadLine ==
    /\ listener = "reading" /\ ~CallPending
    /\ pendingLines # <<>>
    /\ BadLine(Head(pendingLines))

\* The feed has handled every line it has read
Settled ==
    /\ listener \in {"reading", "done", "error"}
    /\ pendingLines = <<>>
    /\ ~CallPending

\* C26: the step taken at a message that is not JSON changes nothing of the
\* turn, writes nothing and leaves the feed reading at the next line; and
\* whenever the feed has handled the lines it has read, processEvent has run
\* once for every well-formed message received, in order, whatever came
\* before it and however the text was cut into chunks.
C26_BadJsonDropped ==
    [][/\ AtBadLine =>
            /\ UNCHANGED <<streamVars, termVars, warned, delivered>>
            /\ listener' = "reading"
            /\ pendingLines' = Tail(pendingLines)
       /\ Settled' =>
            /\ delivered' = GoodDataOf(ReceivedLines')
            /\ nEvents' = Len(delivered')]_vars

\* C26 witness: a message that is not JSON was received before a well-formed
\* one, and the event of the well-formed one has been processed
C26_Witness ==
    /\ Settled
    /\ \E j, k \in 1..Len(ReceivedLines) :
        j < k /\ BadLine(ReceivedLines[j]) /\ GoodLine(ReceivedLines[k])
    /\ delivered # <<>>
    /\ nEvents = Len(delivered)
    /\ ev.type = "reasoning"

\* The loop of startEventListener has ended
Ended == listener \in {"done", "error"}

\* C28: once the event stream has ended, by end of stream or by a read error,
\* a connection-error notification has been written.
C28_EndNotified == Ended => warned

\* ------------------------------------------------------------------------
\* Claims on text part updates and the processing flag
\* ------------------------------------------------------------------------

\* The text part updates among the events
TextEvents == {event \in Events : event.type = "message.part.updated"
                                  /\ event.part.type = "text"}

\* C32: after sendMessage has reset the turn, the step processEvent takes for a
\* text part update changes nothing and writes nothing while no step-start has
\* been processed; once one has, the update is handled: render runs and a
\* delta ends the text of a response part. Only a step-start sets the flag.
C32_TextGated ==
    [][/\ \A event \in TextEvents :
            processEvent(event) =>
                IF processing
                THEN /\ ev'.rendered
                     /\ event.delta # <<>> =>
                            \E i \in 1..Len(accumulatedResponse') :
                                /\ accumulatedResponse'[i].title = "response"
                                /\ EndsWith(accumulatedResponse'[i].text, event.delta)
                ELSE /\ ~ev'.rendered
                     /\ UNCHANGED <<accumulatedResponse, seenParts, renderedLinesCount, out>>
       /\ processing' # processing => (processing' /\ ev'.type = "step-start")]_vars

\* C32 witness: a text delta was discarded before any step-start, with a part
\* of the turn already there
C32_Witness ==
    /\ ~processing
    /\ ev.type = "text" /\ ev.delta # <<>> /\ ~ev.applied
    /\ accumulatedResponse # <<>>
    /\ \A i \in Idx : Parts[i].title # "response"

\* The text part updates that carry text and no delta
FullTextEvents == {event \in TextEvents : event.delta = <<>> /\ event.part.text # <<>>}

C34_ChunkingIrrelevant ==
    /\ delivered \o GoodDataOf(pendingLines) = GoodDataOf(ReceivedLines)
    /\ buffer = SplitLines(received).cur

\* C34 witness: a message that arrived cut in two reads was passed to
\* processEvent once
C34_Witness ==
    /\ Settled
    /\ nReads = 2
    /\ received = Message(<<"r">>)
    /\ delivered = <<<<"r">>>>
    /\ nEvents = 1

\* ------------------------------------------------------------------------
\* The prompt (the keypress handler, handleTab, acceptInput)
\* ------------------------------------------------------------------------

MaxKeys == 6

\* The command of each entry of SLASH_COMMANDS, in the order of the table
SLASH_COMMANDS ==
    <<<<"/", "i", "n", "i", "t">>,
      <<"/", "m", "o", "d", "e", "l">>,
      <<"/", "u", "n", "d", "o">>,
      <<"/", "h", "e", "l", "p">>>>

\* The characters typed
TypedChars == {"/", "m"}

\* s.startsWith(prefix)
StartsWith(s, prefix) == Len(prefix) <= Len(s) /\ SubSeq(s, 1, Len(prefix)) = prefix

\* getCompletions(text)
getCompletions(text) ==
    IF StartsWith(text, <<"/">>)
    THEN SelectSeq(SLASH_COMMANDS, LAMBDA cmd : StartsWith(cmd, text))
    ELSE <<>>

\* The prompt of a session just created
PromptStart ==
    /\ StreamIdle
    /\ WrapIdle
    /\ ListenIdle
    /\ LateIdle
    /\ PromptIdle
    /\ screen = <<"other", "other", "prompt">>
    /\ inputBuffer = <<>>
    /\ inFlight = 0
    /\ erased = <<>>
    /\ tEv = "none"
    /\ tSteps = 0

\* What every key handled at the prompt does besides its own effect
KeyHandled(name) ==
    /\ pSteps < MaxKeys
    /\ pEv' = [key |-> name, run |-> IF name = "tab" THEN pEv.run + 1 ELSE 0]
    /\ pSteps' = pSteps + 1
    /\ UNCHANGED <<streamVars, wrapVars, listenVars, lateVars, screen, erased, tEv, tSteps>>

\* The end of the keypress handler: showCompletions = false,
\* completionCycling = false, completions = [], renderLine()
EndOfKey ==
    /\ completionCycling' = FALSE
    /\ completions' = <<>>
    /\ UNCHANGED <<selectedCompletion, tabPrefix, inFlight>>

\* A handleTab that steps on from the last command to an index past the end
handleTabNoWrap ==
    \E potentialCompletions \in {getCompletions(inputBuffer)} :
        IF potentialCompletions = <<>>
        THEN /\ completionCycling' = FALSE
             /\ UNCHANGED <<inputBuffer, cursorPosition, completions, selectedCompletion,
                            tabPrefix>>
        ELSE IF ~completionCycling
        THEN /\ completions' = potentialCompletions
             /\ selectedCompletion' = 0
             /\ completionCycling' = TRUE
             /\ inputBuffer' = potentialCompletions[1]
             /\ cursorPosition' = Len(potentialCompletions[1])
             /\ tabPrefix' = inputBuffer
        ELSE /\ selectedCompletion' = selectedCompletion + 1
             /\ inputBuffer' = IF selectedCompletion + 2 <= Len(completions)
                               THEN completions[selectedCompletion + 2] ELSE <<>>
             /\ cursorPosition' = Len(inputBuffer')
             /\ UNCHANGED <<completions, completionCycling, tabPrefix>>

\* handleTab()
handleTab ==
    \E potentialCompletions \in {getCompletions(inputBuffer)} :
        IF potentialCompletions = <<>>
        THEN /\ completionCycling' = FALSE
             /\ UNCHANGED <<inputBuffer, cursorPosition, completions, selectedCompletion,
                            tabPrefix>>
        ELSE IF ~completionCycling
        THEN /\ completions' = potentialCompletions
             /\ selectedCompletion' = 0
             /\ completionCycling' = TRUE
             /\ inputBuffer' = potentialCompletions[1]
             /\ cursorPosition' = Len(potentialCompletions[1])
             /\ tabPrefix' = inputBuffer
        ELSE /\ selectedCompletion' = (selectedCompletion + 1) % Len(completions)
             /\ inputBuffer' = completions[((selectedCompletion + 1) % Len(completions)) + 1]
             /\ cursorPosition' = Len(inputBuffer')
             /\ UNCHANGED <<completions, completionCycling, tabPrefix>>

\* str is put in at cursorPosition
InsertAt(s, pos, str) == SubSeq(s, 1, pos) \o str \o SubSeq(s, pos + 1, Len(s))

\* The character before pos / at pos is taken out (slice clamps its bounds)
RemoveAt(s, pos) == SubSeq(s, 1, pos) \o SubSeq(s, pos + 2, Len(s))

\* The keypress handler for Tab: handleTab when not cycling, or when cycling
\* with completions; otherwise the key falls through and "\t" is typed
tabKey ==
    /\ KeyHandled("tab")
    /\ IF ~completionCycling \/ completions # <<>>
       THEN handleTab /\ UNCHANGED inFlight
       ELSE /\ inputBuffer' = InsertAt(inputBuffer, cursorPosition, <<TAB>>)
            /\ cursorPosition' = cursorPosition + 1
            /\ EndOfKey

\* The keypress handler for a character
charKey(str) ==
    /\ KeyHandled("char")
    /\ inputBuffer' = InsertAt(inputBuffer, cursorPosition, <<str>>)
    /\ cursorPosition' = cursorPosition + 1
    /\ EndOfKey

\* The keypress handler for backspace
backspaceKey ==
    /\ KeyHandled("backspace")
    /\ IF cursorPosition > 0
       THEN /\ inputBuffer' = RemoveAt(inputBuffer, cursorPosition - 1)
            /\ cursorPosition' = cursorPosition - 1
       ELSE UNCHANGED <<inputBuffer, cursorPosition>>
    /\ EndOfKey

\* The keypress handler for delete
deleteKey ==
    /\ KeyHandled("delete")
    /\ IF cursorPosition < Len(inputBuffer)
       THEN inputBuffer' = RemoveAt(inputBuffer, cursorPosition)
       ELSE UNCHANGED inputBuffer
    /\ UNCHANGED cursorPosition
    /\ EndOfKey

\* The keypress handler for left
leftKey ==
    /\ KeyHandled("left")
    /\ cursorPosition' = IF cursorPosition > 0 THEN cursorPosition - 1 ELSE cursorPosition
    /\ UNCHANGED inputBuffer
    /\ EndOfKey

\* The keypress handler for right
rightKey ==
    /\ KeyHandled("right")
    /\ cursorPosition' = IF cursorPosition < Len(inputBuffer)
                         THEN cursorPosition + 1 ELSE cursorPosition
    /\ UNCHANGED inputBuffer
    /\ EndOfKey

\* The keypress handler for Esc at the prompt
escapeKey ==
    /\ KeyHandled("escape")
    /\ completionCycling' = FALSE
    /\ UNCHANGED <<inputBuffer, cursorPosition, completions, selectedCompletion, tabPrefix,
                   inFlight>>

\* The keypress handler for Return: acceptInput up to its await (a command or
\* a message is awaited; empty input and /help are not)
returnKey ==
    /\ KeyHandled("return")
    /\ IF trim(inputBuffer) = <<>> \/ trim(inputBuffer) = SLASH_COMMANDS[4]
       THEN PromptReset /\ UNCHANGED inFlight
       ELSE /\ inFlight' = inFlight + 1
            /\ UNCHANGED <<inputBuffer, cursorPosition, completions, completionCycling>>
    /\ UNCHANGED <<selectedCompletion, tabPrefix>>

\* acceptInput after its await
acceptInputResumes ==
    /\ KeyHandled("resume")
    /\ inFlight > 0
    /\ inFlight' = inFlight - 1
    /\ PromptReset
    /\ UNCHANGED <<selectedCompletion, tabPrefix>>

PromptNext ==
    \/ \E str \in TypedChars : charKey(str)
    \/ tabKey
    \/ backspaceKey
    \/ deleteKey
    \/ leftKey
    \/ rightKey
    \/ escapeKey
    \/ returnKey
    \/ acceptInputResumes

PromptSpec == PromptStart /\ [][PromptNext]_vars

C39_CursorInBuffer == 0 <= cursorPosition /\ cursorPosition <= Len(inputBuffer)

\* C39 witness: acceptInput resumed and emptied a prompt that had text typed
\* into it during the await
C39_Witness ==
    /\ pEv.key = "resume"
    /\ pSteps >= 4
    /\ inputBuffer = <<>>
    /\ cursorPosition = 0

\* ------------------------------------------------------------------------
\* The /page command (commands/page.ts)
\* ------------------------------------------------------------------------

MaxPageSteps == 5

\* The page run builds for one part
PageOf(part) ==
    IF part.title = "thinking"
    THEN ThinkingLabel \o BRIGHT_BLACK \o trimStart(part.text) \o RESET
    ELSE IF part.title = "response"
    THEN ThinkingLabel \o trimStart(part.text)
    ELSE part.text

\* The pages run builds: one for each part whose text is not blank
PagesOf(parts) ==
    ForEach(LAMBDA acc, i : IF trim(parts[i].text) = <<>> THEN acc
                            ELSE Append(acc, PageOf(parts[i])),
            <<>>, 1, Len(parts))

\* The part lists /page is run on
PageParts ==
    {<<>>,
     <<NewPart("thinking", <<>>, ""), NewPart("response", <<SP>>, "m1-p1")>>,
     <<NewPart("response", <<"a">>, "m1-p1"), NewPart("files", <<SP, NL>>, "")>>,
     <<NewPart("thinking", <<SP>>, ""), NewPart("tool", <<"t">>, "m1-p3"),
       NewPart("files", <<"f">>, "")>>,
     <<NewPart("thinking", <<"a">>, ""), NewPart("response", <<SP, "b">>, "m1-p1"),
       NewPart("tool", <<"t">>, "m1-p3")>>}

\* A turn has left its parts and /page has not been run
PageStart ==
    /\ accumulatedResponse \in PageParts
    /\ renderedLinesCount = 0
    /\ seenParts = {}
    /\ processing = TRUE
    /\ columns = 0
    /\ out = NoOut
    /\ ev = NoEv
    /\ nEvents = 0
    /\ WrapIdle
    /\ TermIdle
    /\ ListenIdle
    /\ PromptIdle
    /\ LateIdle

\* What every step of /page leaves alone
PageFrame ==
    /\ pageSteps < MaxPageSteps
    /\ pageSteps' = pageSteps + 1
    /\ UNCHANGED <<streamVars, wrapVars, termVars, listenVars, promptVars, sessionVars,
                   diffVars, fetchVars>>

\* run(client, state)
pageRun ==
    /\ PageFrame
    /\ pages' = PagesOf(accumulatedResponse)
    /\ IF pages' = <<>>
       THEN UNCHANGED <<currentPageIndex, pageRunning>>
       ELSE currentPageIndex' = 0 /\ pageRunning' = TRUE
    /\ pageEv' = [key |-> "run", spaces |-> 0]

\* A handleKey that cancels on Esc only on the last page
pageHandleKeyEscLast(name) ==
    /\ PageFrame
    /\ IF name = "space"
       THEN /\ currentPageIndex' = currentPageIndex + 1
            /\ pageRunning' = IF currentPageIndex + 1 >= Len(pages) THEN FALSE
                              ELSE pageRunning
       ELSE IF name = "escape" /\ currentPageIndex + 1 >= Len(pages)
       THEN pageRunning' = FALSE /\ UNCHANGED currentPageIndex
       ELSE UNCHANGED <<currentPageIndex, pageRunning>>
    /\ pageEv' = [key |-> name,
                  spaces |-> IF name = "space" THEN pageEv.spaces + 1 ELSE pageEv.spaces]
    /\ UNCHANGED pages

\* handleKey(client, key)
pageHandleKey(name) ==
    /\ PageFrame
    /\ IF name = "space"
       THEN /\ currentPageIndex' = currentPageIndex + 1
            /\ pageRunning' = IF currentPageIndex + 1 >= Len(pages) THEN FALSE
                              ELSE pageRunning
       ELSE IF name = "escape"
       THEN pageRunning' = FALSE /\ UNCHANGED currentPageIndex
       ELSE UNCHANGED <<currentPageIndex, pageRunning>>
    /\ pageEv' = [key |-> name,
                  spaces |-> IF name = "space" THEN pageEv.spaces + 1 ELSE pageEv.spaces]
    /\ UNCHANGED pages

PageKeys == {"space", "escape", "up"}

PageNext ==
    \/ pageRun
    \/ \E name \in PageKeys : pageHandleKey(name)

PageSpec == PageStart /\ [][PageNext]_vars

\* C38: while /page is running currentPageIndex is an index of pages and is
\* the number of Space presses since run; a Space while running moves to the
\* next page and leaves the command running exactly when there is one; Esc
\* leaves it not running; and run does not start it when every part is blank.
C38_PageBounds ==
    [][/\ pageRunning' =>
            /\ 0 <= currentPageIndex' /\ currentPageIndex' < Len(pages')
            /\ currentPageIndex' = pageEv'.spaces
       /\ (pageHandleKey("space") /\ pageRunning) =>
            /\ currentPageIndex' = currentPageIndex + 1
            /\ pageRunning' <=> (pageEv'.spaces < Len(pages))
       /\ pageHandleKey("escape") => ~pageRunning'
       /\ (pageRun /\ ~pageRunning /\ \A i \in Idx : Blank(Parts[i].text))
            => ~pageRunning']_vars

\* C38 witness: three pages, and the third Space since run has ended the
\* command
C38_Witness ==
    /\ Len(pages) = 3
    /\ pageEv = [key |-> "space", spaces |-> 3]
    /\ currentPageIndex = 3
    /\ ~pageRunning

\* ------------------------------------------------------------------------
\* The /sessions command (commands/sessions.ts)
\* ------------------------------------------------------------------------

\* Most sessions the server lists
MaxSessions == 11

MaxSessSteps == 4

\* The sessions of a page of the list
PageSize == 10

\* The session at place k (from 0) of the list the server returns, sorted:
\* the odd ones are titled "b", the even ones "a", the first has no title
SessionAt(k) ==
    [id |-> <<"s">> \o ToDigits(k),
     title |-> IF k = 0 THEN <<>> ELSE IF k % 2 = 0 THEN <<"a">> ELSE <<"b">>]

SessionsOf(n) == [k \in 1..n |-> SessionAt(k - 1)]

\* s.toLowerCase(), on the characters used here
ToLower(str) == [k \in 1..Len(str) |-> IF str[k] = "A" THEN "a" ELSE str[k]]

\* s.includes(sub)
Includes(str, sub) ==
    \E k \in 0..(Len(str) - Len(sub)) : SubSeq(str, k + 1, k + Len(sub)) = sub

\* sessionList.findIndex((s) => s.id === id), from 0, -1 if none
FindSession(list, id) ==
    IF \E k \in 1..Len(list) : list[k].id = id
    THEN (CHOOSE k \in 1..Len(list) :
            list[k].id = id /\ \A j \in 1..(k - 1) : list[j].id # id) - 1
    ELSE -1

\* indices.indexOf(x), from 0, -1 if none
IndexOf(indices, x) ==
    IF \E k \in 1..Len(indices) : indices[k] = x
    THEN (CHOOSE k \in 1..Len(indices) :
            indices[k] = x /\ \A j \in 1..(k - 1) : indices[j] # x) - 1
    ELSE -1

\* The filter of updateSessionFilter: the indices of the sessions whose title
\* or id includes the search string
FilteredIndices(list, search) ==
    IF search = <<>> THEN [k \in 1..Len(list) |-> k - 1]
    ELSE ForEach(LAMBDA acc, k :
                    IF (list[k].title # <<>>
                            /\ Includes(ToLower(list[k].title), ToLower(search)))
                       \/ Includes(ToLower(list[k].id), ToLower(search))
                    THEN Append(acc, k - 1) ELSE acc,
                 <<>>, 1, Len(list))

\* selectedSessionIndex after updateSessionFilter
FilterSelected(list, indices, selected, active) ==
    IF indices # <<>>
    THEN (IF IndexOf(indices, FindSession(list, active)) = -1 THEN 0
          ELSE IndexOf(indices, FindSession(list, active)))
    ELSE selected

\* sessionFilteredIndices[i], -1 for undefined
FilteredAt(indices, i) == IF i >= 0 /\ i < Len(indices) THEN indices[i + 1] ELSE -1

\* The places (from 0) in the filtered list of the sessions renderSessionList
\* writes: filteredSessions.slice(sessionListOffset, sessionListOffset + 10)
Displayed ==
    {k \in 0..(Len(sessionFilteredIndices) - 1) :
        sessionListOffset <= k /\ k < sessionListOffset + PageSize}

\* The session some session id of config stands for: none, the first, the last
ActiveChoices == {<<>>, SessionAt(0).id, SessionAt(MaxSessions - 1).id}

\* /sessions has not been run
SessionsStart ==
    /\ StreamIdle
    /\ WrapIdle
    /\ TermIdle
    /\ ListenIdle
    /\ PromptIdle
    /\ PageIdle
    /\ SessionsIdle
    /\ DiffIdle
    /\ FetchIdle
    /\ activeSession \in ActiveChoices

\* What every step of /sessions leaves alone
SessFrame(name, arrow) ==
    /\ sessSteps < MaxSessSteps
    /\ sessSteps' = sessSteps + 1
    /\ sessEv' = [key |-> name,
                  arrowsOnly |-> IF name = "run" THEN TRUE ELSE sessEv.arrowsOnly /\ arrow]
    /\ UNCHANGED <<streamVars, wrapVars, termVars, listenVars, promptVars, pageVars,
                   diffVars, fetchVars>>

\* run(client, state), the server listing n sessions (with none, a session
\* is created, which becomes the active one, and the command does not start)
sessionsRun(n) ==
    /\ SessFrame("run", TRUE)
    /\ ~sessionsRunning
    /\ IF n = 0
       THEN /\ activeSession' = <<"n", "e", "w">>
            /\ UNCHANGED <<sessionList, selectedSessionIndex, sessionListOffset,
                           sessionSearchString, sessionFilteredIndices, sessionsRunning>>
       ELSE /\ sessionList' = SessionsOf(n)
            /\ sessionSearchString' = <<>>
            /\ sessionFilteredIndices' = FilteredIndices(sessionList', <<>>)
            /\ selectedSessionIndex' =
                    FilterSelected(sessionList', sessionFilteredIndices',
                                   selectedSessionIndex, activeSession)
            /\ sessionListOffset' = (selectedSessionIndex' \div PageSize) * PageSize
            /\ sessionsRunning' = TRUE
            /\ UNCHANGED activeSession

\* handleKey, case "up"
sessionsUp ==
    /\ SessFrame("up", TRUE)
    /\ sessionsRunning
    /\ selectedSessionIndex' = IF selectedSessionIndex = 0
                               THEN Len(sessionFilteredIndices) - 1
                               ELSE selectedSessionIndex - 1
    /\ \E currentIndex \in {FilteredAt(sessionFilteredIndices, selectedSessionIndex')} :
        sessionListOffset' =
            IF currentIndex # -1 /\ currentIndex < sessionListOffset /\ sessionListOffset > 0
            THEN Max(sessionListOffset - PageSize, 0)
            ELSE sessionListOffset
    /\ UNCHANGED <<sessionList, sessionSearchString, sessionFilteredIndices, sessionsRunning,
                   activeSession>>

\* handleKey, case "down"
sessionsDown ==
    /\ SessFrame("down", TRUE)
    /\ sessionsRunning
    /\ selectedSessionIndex' = IF selectedSessionIndex = Len(sessionFilteredIndices) - 1
                               THEN 0
                               ELSE selectedSessionIndex + 1
    /\ \E currentIndex \in {FilteredAt(sessionFilteredIndices, selectedSessionIndex')} :
        sessionListOffset' =
            IF /\ currentIndex # -1
               /\ currentIndex >= sessionListOffset + PageSize
               /\ sessionListOffset + PageSize < Len(sessionList)
            THEN sessionListOffset + PageSize
            ELSE sessionListOffset
    /\ UNCHANGED <<sessionList, sessionSearchString, sessionFilteredIndices, sessionsRunning,
                   activeSession>>

\* handleKey, cases "escape" and "return" (switched: a session was selected
\* and becomes the active one)
sessionsClose(name) ==
    /\ SessFrame(name, FALSE)
    /\ sessionsRunning
    /\ \E selectedIndex \in {FilteredAt(sessionFilteredIndices, selectedSessionIndex)} :
        activeSession' = IF name = "return" /\ selectedIndex # -1
                         THEN sessionList[selectedIndex + 1].id
                         ELSE activeSession
    /\ sessionsRunning' = FALSE
    /\ sessionList' = <<>>
    /\ selectedSessionIndex' = 0
    /\ sessionListOffset' = 0
    /\ sessionSearchString' = <<>>
    /\ sessionFilteredIndices' = <<>>

\* handleKey, case "backspace" (search: the string without its last
\* character) and a key with a character (search: the string with it added)
sessionsSearch(name, search) ==
    /\ SessFrame(name, FALSE)
    /\ sessionsRunning
    /\ sessionSearchString' = search
    /\ sessionFilteredIndices' = FilteredIndices(sessionList, search)
    /\ selectedSessionIndex' = 0
    /\ UNCHANGED <<sessionList, sessionListOffset, sessionsRunning, activeSession>>

\* The characters typed into the filter
SearchChars == {"A", "1"}

SessionsNext ==
    \/ \E n \in {0, 2, MaxSessions} : sessionsRun(n)
    \/ sessionsUp
    \/ sessionsDown
    \/ \E name \in {"escape", "return"} : sessionsClose(name)
    \/ sessionsSearch("backspace",
                      SubSeq(sessionSearchString, 1, Len(sessionSearchString) - 1))
    \/ \E str \in SearchChars : sessionsSearch("char", Append(sessionSearchString, str))

SessionsSpec == SessionsStart /\ [][SessionsNext]_vars

\* C37: while /sessions is running and only up and down have been pressed
\* since run, the highlighted session is one of those renderSessionList
\* writes.
C37_HighlightShown ==
    (sessionsRunning /\ sessEv.arrowsOnly) => selectedSessionIndex \in Displayed

\* ------------------------------------------------------------------------
\* computeDiff and computeLCS (commands/diff.ts)
\* ------------------------------------------------------------------------

\* Most characters of the before and after texts together
MaxDiffChars == 6

DiffChars == {"a", "b", NL}

\* text.split("\n")
SplitOnNL(text) == Append(SplitLines(text).done, SplitLines(text).cur)

\* The entries of the edit script; -1 stands for an index that is not set
SameLine(text, oldIndex, newIndex) ==
    [type |-> "same", line |-> text, oldIndex |-> oldIndex, newIndex |-> newIndex]

AddLine(text, newIndex) ==
    [type |-> "add", line |-> text, oldIndex |-> -1, newIndex |-> newIndex]

RemoveLine(text, oldIndex) ==
    [type |-> "remove", line |-> text, oldIndex |-> oldIndex, newIndex |-> -1]

\* The table dp of computeLCS
LcsTable(beforeLines, afterLines) ==
    LET dp[i \in 0..Len(beforeLines), j \in 0..Len(afterLines)] ==
            IF i = 0 \/ j = 0 THEN 0
            ELSE IF beforeLines[i] = afterLines[j] THEN dp[i - 1, j - 1] + 1
            ELSE Max(dp[i - 1, j], dp[i, j - 1])
    IN dp

\* A while loop of computeLCS that does not look at dp where the lines differ
RECURSIVE LcsWalkNoTable(_, _, _, _, _)
LcsWalkNoTable(beforeLines, afterLines, dp, i, j) ==
    IF i = 0 /\ j = 0 THEN <<>>
    ELSE IF i > 0 /\ j > 0 /\ beforeLines[i] = afterLines[j]
    THEN Append(LcsWalkNoTable(beforeLines, afterLines, dp, i - 1, j - 1),
                SameLine(beforeLines[i], i - 1, j - 1))
    ELSE IF j > 0
    THEN Append(LcsWalkNoTable(beforeLines, afterLines, dp, i, j - 1),
                AddLine(afterLines[j], j - 1))
    ELSE Append(LcsWalkNoTable(beforeLines, afterLines, dp, i - 1, j),
                RemoveLine(beforeLines[i], i - 1))

\* The while loop of computeLCS from (i, j): each entry it unshifts comes
\* after those of the rest of the walk
RECURSIVE LcsWalk(_, _, _, _, _)
LcsWalk(beforeLines, afterLines, dp, i, j) ==
    IF i = 0 /\ j = 0 THEN <<>>
    ELSE IF i > 0 /\ j > 0 /\ beforeLines[i] = afterLines[j]
    THEN Append(LcsWalk(beforeLines, afterLines, dp, i - 1, j - 1),
                SameLine(beforeLines[i], i - 1, j - 1))
    ELSE IF j > 0 /\ (i = 0 \/ dp[i, j] = dp[i, j - 1])
    THEN Append(LcsWalk(beforeLines, afterLines, dp, i, j - 1),
                AddLine(afterLines[j], j - 1))
    ELSE Append(LcsWalk(beforeLines, afterLines, dp, i - 1, j),
                RemoveLine(beforeLines[i], i - 1))

\* A computeLCS whose while loop does not look at dp
computeLCSNoTable(beforeLines, afterLines) ==
    LcsWalkNoTable(beforeLines, afterLines, LcsTable(beforeLines, afterLines),
                   Len(beforeLines), Len(afterLines))

\* computeLCS(beforeLines, afterLines)
computeLCS(beforeLines, afterLines) ==
    LcsWalk(beforeLines, afterLines, LcsTable(beforeLines, afterLines),
            Len(beforeLines), Len(afterLines))

\* while (oldIdx < limit) push a remove entry; limit -1 (not set): no turn
PushRemoves(st, beforeLines, limit) ==
    IF st.oldIdx < limit
    THEN [st EXCEPT !.result = @ \o [k \in 1..(limit - st.oldIdx) |->
                                        RemoveLine(beforeLines[st.oldIdx + k],
                                                   st.oldIdx + k - 1)],
                    !.oldIdx = limit]
    ELSE st

\* while (newIdx < limit) push an add entry; limit -1 (not set): no turn
PushAdds(st, afterLines, limit) ==
    IF st.newIdx < limit
    THEN [st EXCEPT !.result = @ \o [k \in 1..(limit - st.newIdx) |->
                                        AddLine(afterLines[st.newIdx + k],
                                                st.newIdx + k - 1)],
                    !.newIdx = limit]
    ELSE st

\* One turn of the for loop of computeDiff
DiffStep(st, beforeLines, afterLines, lcsItem) ==
    LET pushed == PushAdds(PushRemoves(st, beforeLines, lcsItem.oldIndex),
                           afterLines, lcsItem.newIndex)
    IN [result |-> Append(pushed.result, lcsItem),
        oldIdx |-> pushed.oldIdx + 1,
        newIdx |-> pushed.newIdx + 1]

\* computeDiff(before, after)
computeDiff(before, after) ==
    LET beforeLines == SplitOnNL(before)
        afterLines == SplitOnNL(after)
        lcs == computeLCS(beforeLines, afterLines)
        looped == ForEach(LAMBDA st, k : DiffStep(st, beforeLines, afterLines, lcs[k]),
                          [result |-> <<>>, oldIdx |-> 0, newIdx |-> 0], 1, Len(lcs))
    IN PushAdds(PushRemoves(looped, beforeLines, Len(beforeLines)),
                afterLines, Len(afterLines)).result

\* computeDiff has been called on two empty texts
DiffStart ==
    /\ StreamIdle
    /\ WrapIdle
    /\ TermIdle
    /\ ListenIdle
    /\ PromptIdle
    /\ PageIdle
    /\ SessionsIdle
    /\ activeSession = <<>>
    /\ diffBefore = <<>>
    /\ diffAfter = <<>>
    /\ diffResult = computeDiff(<<>>, <<>>)
    /\ FetchIdle

\* computeDiff called with the text before made one character longer
callComputeDiffBefore(c) ==
    /\ Len(diffBefore) + Len(diffAfter) < MaxDiffChars
    /\ diffBefore' = Append(diffBefore, c)
    /\ diffResult' = computeDiff(diffBefore', diffAfter)
    /\ UNCHANGED <<diffAfter, streamVars, wrapVars, termVars, listenVars, promptVars,
                   pageVars, sessionVars, fetchVars>>

\* computeDiff called with the text after made one character longer
callComputeDiffAfter(c) ==
    /\ Len(diffBefore) + Len(diffAfter) < MaxDiffChars
    /\ diffAfter' = Append(diffAfter, c)
    /\ diffResult' = computeDiff(diffBefore, diffAfter')
    /\ UNCHANGED <<diffBefore, streamVars, wrapVars, termVars, listenVars, promptVars,
                   pageVars, sessionVars, fetchVars>>

DiffNext ==
    \/ \E c \in DiffChars : callComputeDiffBefore(c)
    \/ \E c \in DiffChars : callComputeDiffAfter(c)

DiffSpec == DiffStart /\ [][DiffNext]_vars

\* The entries of an edit script of these types, in order
EntriesOf(script, types) == SelectSeq(script, LAMBDA e : e.type \in types)

\* The lines of x at the places in S, in order
PickLines(x, S) ==
    ForEach(LAMBDA acc, i : IF i \in S THEN Append(acc, x[i]) ELSE acc, <<>>, 1, Len(x))

\* s is what is left of y when some of its lines are taken out
RECURSIVE IsSubsequence(_, _)
IsSubsequence(s, y) ==
    IF s = <<>> THEN TRUE
    ELSE IF y = <<>> THEN FALSE
    ELSE IF Head(s) = Head(y) THEN IsSubsequence(Tail(s), Tail(y))
    ELSE IsSubsequence(s, Tail(y))

\* The length of a longest common subsequence of x and y
LongestCommon(x, y) ==
    LET common == {S \in SUBSET (1..Len(x)) : IsSubsequence(PickLines(x, S), y)}
    IN CHOOSE k \in 0..Len(x) :
        /\ \E S \in common : Cardinality(S) = k
        /\ \A S \in common : Cardinality(S) <= k

\* C40: in the script computeDiff returned, the same and remove entries are
\* the lines of the text before, in order, each with its index from 0 as
\* oldIndex; the same and add entries are the lines of the text after, each
\* with its index as newIndex; an add entry has no oldIndex and a remove entry
\* no newIndex; and there are as many same entries as a longest common
\* subsequence of the two line sequences is long.
C40_DiffIsEditScript ==
    LET beforeLines == SplitOnNL(diffBefore)
        afterLines == SplitOnNL(diffAfter)
        old == EntriesOf(diffResult, {"same", "remove"})
        new == EntriesOf(diffResult, {"same", "add"})
    IN /\ Len(old) = Len(beforeLines)
       /\ \A k \in 1..Len(old) : old[k].line = beforeLines[k] /\ old[k].oldIndex = k - 1
       /\ Len(new) = Len(afterLines)
       /\ \A k \in 1..Len(new) : new[k].line = afterLines[k] /\ new[k].newIndex = k - 1
       /\ \A k \in 1..Len(diffResult) :
            /\ diffResult[k].type \in {"same", "add", "remove"}
            /\ diffResult[k].type = "add" => diffResult[k].oldIndex = -1
            /\ diffResult[k].type = "remove" => diffResult[k].newIndex = -1
       /\ Len(EntriesOf(diffResult, {"same"})) = LongestCommon(beforeLines, afterLines)

\* C40 witness: the texts "a\nb" and "b\na": the script keeps one line, at
\* different places before and after, takes one out and adds one
C40_Witness ==
    /\ diffBefore = <<"a", NL, "b">>
    /\ diffAfter = <<"b", NL, "a">>
    /\ Len(diffResult) = 3
    /\ \E k \in 1..3 : diffResult[k].type = "same"
                       /\ diffResult[k].oldIndex # diffResult[k].newIndex
    /\ \E k \in 1..3 : diffResult[k].type = "remove"
    /\ \E k \in 1..3 : diffResult[k].type = "add"

\* ------------------------------------------------------------------------
\* fetchWithTimeout (index.ts)
\* ------------------------------------------------------------------------

\* Most calls of fetchWithTimeout
MaxFetchCalls == 2

\* Most events that arrive: after them the stream is silent
MaxActivity == 2

\* timeoutMs, in periods of the activity poll (5000 ms)
TimeoutTicks == 3

\* The period of the setInterval callback, in periods of 5000 ms
PollTicks == 1

\* A handle no armed timer has
NewTimerId(ts) ==
    LET free == {i \in 1..(Cardinality(ts) + 1) : \A t \in ts : t.id # i}
    IN CHOOSE i \in free : \A j \in free : i <= j

\* setTimeout(() => controller.abort(), timeoutMs) of this call: the timers
\* armed after it, and its handle
setTimeout(ts, c) ==
    [timers |-> ts \cup {[id |-> NewTimerId(ts), left |-> TimeoutTicks, call |-> c]},
     timeout |-> NewTimerId(ts)]

\* clearTimeout(handle)
clearTimeout(ts, handle) == {t \in ts : t.id # handle}

\* A resetTimeout that arms the new timer and leaves the old one armed
resetTimeoutNoClear(ts, handle, c) == setTimeout(ts, c)

\* resetTimeout()
resetTimeout(ts, handle, c) == setTimeout(clearTimeout(ts, handle), c)

FetchStart ==
    /\ StreamIdle
    /\ WrapIdle
    /\ TermIdle
    /\ ListenIdle
    /\ PromptIdle
    /\ PageIdle
    /\ SessionsIdle
    /\ activeSession = <<>>
    /\ DiffIdle
    /\ FetchIdle

\* What fetchWithTimeout and its timers leave alone
FetchFrame ==
    UNCHANGED <<streamVars, wrapVars, termVars, listenVars, promptVars, pageVars,
                sessionVars, diffVars>>

\* fetchWithTimeout(url, options, timeoutMs, reset) up to its await
callFetchWithTimeout(reset) ==
    /\ fetchState # "pending"
    /\ fetchCalls < MaxFetchCalls
    /\ fetchCalls' = fetchCalls + 1
    /\ fetchState' = "pending"
    /\ resetOnActivity' = reset
    /\ aborted' = FALSE
    /\ rearmed' = FALSE
    /\ \E armed \in {setTimeout(timers, fetchCalls + 1)} :
         timers' = armed.timers /\ timeout' = armed.timeout
    /\ startTime' = lastEventTime
    /\ interval' = IF reset THEN PollTicks ELSE -1
    /\ UNCHANGED lastEventTime
    /\ FetchFrame

\* processEvent: lastEventTime = Date.now(), a later time than any before
eventArrives ==
    /\ lastEventTime < MaxActivity
    /\ lastEventTime' = lastEventTime + 1
    /\ UNCHANGED <<fetchState, fetchCalls, resetOnActivity, startTime, timers, timeout,
                   interval, aborted, rearmed>>
    /\ FetchFrame

\* 5000 ms pass: possible once every callback that is due has run
tick ==
    /\ timers # {} \/ interval # -1
    /\ \A t \in timers : t.left > 0
    /\ interval # 0
    /\ timers' = {[t EXCEPT !.left = @ - 1] : t \in timers}
    /\ interval' = IF interval = -1 THEN -1 ELSE interval - 1
    /\ UNCHANGED <<lastEventTime, fetchState, fetchCalls, resetOnActivity, startTime,
                   timeout, aborted, rearmed>>
    /\ FetchFrame

\* The setInterval callback: if (lastEventTime > startTime) resetTimeout()
intervalFires ==
    /\ interval = 0
    /\ interval' = PollTicks
    /\ IF lastEventTime > startTime
       THEN /\ \E armed \in {resetTimeout(timers, timeout, fetchCalls)} :
                 timers' = armed.timers /\ timeout' = armed.timeout
            /\ rearmed' = TRUE
       ELSE UNCHANGED <<timers, timeout, rearmed>>
    /\ UNCHANGED <<lastEventTime, fetchState, fetchCalls, resetOnActivity, startTime,
                   aborted>>
    /\ FetchFrame

\* A setTimeout callback: controller.abort() of the call that armed it
timeoutFires ==
    /\ \E t \in timers :
         /\ t.left = 0
         /\ timers' = timers \ {t}
         /\ aborted' = IF t.call = fetchCalls THEN TRUE ELSE aborted
    /\ UNCHANGED <<lastEventTime, fetchState, fetchCalls, resetOnActivity, startTime,
                   timeout, interval, rearmed>>
    /\ FetchFrame

\* The end of either try or catch block: clearTimeout(timeout), and with
\* resetOnActivity clearInterval(interval), then return or throw
fetchSettles(state) ==
    /\ fetchState' = state
    /\ timers' = clearTimeout(timers, timeout)
    /\ interval' = IF resetOnActivity THEN -1 ELSE interval
    /\ UNCHANGED <<lastEventTime, fetchCalls, resetOnActivity, startTime, timeout,
                   aborted, rearmed>>
    /\ FetchFrame

\* fetch resolves: the response is returned
fetchResolves == fetchState = "pending" /\ ~aborted /\ fetchSettles("returned")

\* fetch rejects with an error other than AbortError: it is thrown on
fetchRejects == fetchState = "pending" /\ ~aborted /\ fetchSettles("failed")

\* fetch rejects with AbortError: "Request timed out after ...ms" is thrown
fetchAborts == fetchState = "pending" /\ aborted /\ fetchSettles("timedOut")

FetchNext ==
    \/ \E reset \in BOOLEAN : callFetchWithTimeout(reset)
    \/ eventArrives
    \/ tick
    \/ intervalFires
    \/ timeoutFires
    \/ fetchResolves
    \/ fetchRejects
    \/ fetchAborts

FetchSpec == FetchStart /\ [][FetchNext]_vars

\* Time passes, callbacks that are due run and an aborted fetch rejects; the
\* server need not answer and events need not arrive
FetchFairSpec ==
    /\ FetchSpec
    /\ WF_vars(tick)
    /\ WF_vars(intervalFires)
    /\ WF_vars(timeoutFires)
    /\ WF_vars(fetchAborts)

FetchSettled == fetchState \in {"returned", "timedOut", "failed"}

\* C35: a call with resetOnActivity that is awaiting fetch settles in the
\* end: if the server never answers, then once the events have stopped the
\* request is aborted and "Request timed out" is thrown.
C35_EventuallyTimesOut ==
    (fetchState = "pending" /\ resetOnActivity) ~> FetchSettled

\* C36: once a call has settled, no setTimeout timer is armed and the
\* setInterval callback is not armed.
C36_NothingArmed == FetchSettled => (timers = {} /\ interval = -1)

\* C36 witness: a call has settled after resetTimeout had armed a new timer
C36_Witness == FetchSettled /\ resetOnActivity /\ rearmed

====
